---------------------------- MODULE Spec2Model ----------------------------
(***************************************************************************)
(* ClearSend recipient-processing pipeline (the "processors" library and   *)
(* its orchestrator processRecipients).                                    *)
(*                                                                         *)
(* A JavaScript string is a sequence of one-character strings.  A value    *)
(* that is not a string (null, a number, ...) is the one-element sequence  *)
(* NullValue, whose element is no character.  A recipient list is a         *)
(* sequence of such values.                                                *)
(***************************************************************************)
EXTENDS Integers, Sequences, FiniteSets, TLC

(***************************************************************************)
(* Characters                                                              *)
(***************************************************************************)
LowerLetters == <<"a","b","c","d","e","f","g","h","i","j","k","l","m",
                  "n","o","p","q","r","s","t","u","v","w","x","y","z">>

UpperLetters == <<"A","B","C","D","E","F","G","H","I","J","K","L","M",
                  "N","O","P","Q","R","S","T","U","V","W","X","Y","Z">>

Digits == {"0","1","2","3","4","5","6","7","8","9"}

Letters == {LowerLetters[i] : i \in 1..26} \cup {UpperLetters[i] : i \in 1..26}

AlphaNum == Letters \cup Digits

\* String.prototype.trim and the regex class \s
WhiteSpace == {" ", "\t", "\n", "\r"}

\* the characters the regex dot does not match
LineTerminators == {"\n", "\r"}

\* a value that is not a string (typeof v !== 'string')
NullValue == <<"null">>

IsString(v) == v # NullValue

Min(S) == CHOOSE x \in S : \A y \in S : x <= y

Max(S) == CHOOSE x \in S : \A y \in S : x >= y

(***************************************************************************)
(* String.prototype methods                                                *)
(***************************************************************************)
\* U+212A KELVIN SIGN, a character outside ASCII whose lower case is the
\* ASCII letter k
KelvinSign == "U+212A"

LowerChar(c) ==
    IF c = KelvinSign THEN "k"
    ELSE IF \E i \in 1..26 : UpperLetters[i] = c
    THEN LowerLetters[CHOOSE i \in 1..26 : UpperLetters[i] = c]
    ELSE c

toLowerCase(s) == <<>> \o [i \in 1..Len(s) |-> LowerChar(s[i])]

trim(s) ==
    LET keep == {i \in 1..Len(s) : s[i] \notin WhiteSpace}
    IN  IF keep = {} THEN <<>> ELSE SubSeq(s, Min(keep), Max(keep))

\* the positions at which sub occurs in s
Occurrences(s, sub) ==
    {i \in 1..(Len(s) - Len(sub) + 1) : SubSeq(s, i, i + Len(sub) - 1) = sub}

includes(s, sub) == Occurrences(s, sub) # {}

startsWith(s, sub) == Len(sub) <= Len(s) /\ SubSeq(s, 1, Len(sub)) = sub

endsWith(s, sub) ==
    Len(sub) <= Len(s) /\ SubSeq(s, Len(s) - Len(sub) + 1, Len(s)) = sub

RECURSIVE SplitFrom(_, _, _)
\* s.split(c) for a one-character separator c, reading s from position i
SplitFrom(s, c, i) ==
    LET hits == {k \in i..Len(s) : s[k] = c}
    IN  IF hits = {} THEN <<SubSeq(s, i, Len(s))>>
        ELSE <<SubSeq(s, i, Min(hits) - 1)>> \o SplitFrom(s, c, Min(hits) + 1)

split(s, c) == SplitFrom(s, c, 1)

(***************************************************************************)
(* String.prototype.localeCompare on lower-cased keys: the collation order *)
(* of the characters (white space, punctuation, digits, letters), then     *)
(* lexicographic.                                                          *)
(***************************************************************************)
CollationOrder ==
    <<"\t", "\n", "\r", " ", "_", "-", ",", ";", ":", "!", "?", ".", "'",
      "(", ")", "@", "*", "/", "&", "#", "%", "+", "<", "=", ">", "$",
      "0","1","2","3","4","5","6","7","8","9">> \o LowerLetters \o UpperLetters

Rank(c) == CHOOSE i \in 1..Len(CollationOrder) : CollationOrder[i] = c

RECURSIVE localeCompare(_, _)
localeCompare(a, b) ==
    IF a = <<>> /\ b = <<>> THEN 0
    ELSE IF a = <<>> THEN -1
    ELSE IF b = <<>> THEN 1
    ELSE IF Rank(Head(a)) < Rank(Head(b)) THEN -1
    ELSE IF Rank(Head(a)) > Rank(Head(b)) THEN 1
    ELSE localeCompare(Tail(a), Tail(b))

(***************************************************************************)
(* Address parser                                                          *)
(***************************************************************************)
\* the places where /<(.+)>$/ can match: a "<" followed by at least one
\* character that is no line terminator and then the final ">"
BracketStarts(s) ==
    IF Len(s) < 3 \/ s[Len(s)] # ">" THEN {}
    ELSE {i \in 1..(Len(s) - 2) :
            /\ s[i] = "<"
            /\ \A k \in (i + 1)..(Len(s) - 1) : s[k] \notin LineTerminators}

extractEmail(recipient) ==
    IF ~IsString(recipient) \/ recipient = <<>> THEN <<>>
    ELSE IF BracketStarts(recipient) # {}
         THEN trim(SubSeq(recipient, Min(BracketStarts(recipient)) + 1,
                          Len(recipient) - 1))
         ELSE trim(recipient)

\* the prefix lengths k with which /^(.+?)\s*<(.+)>$/ can match: k >= 1
\* characters that are no line terminators, white space, then a bracket
DisplayPrefixes(s) ==
    {k \in 1..Len(s) :
        /\ \A i \in 1..k : s[i] \notin LineTerminators
        /\ \E j \in BracketStarts(s) :
              /\ j > k
              /\ \A i \in (k + 1)..(j - 1) : s[i] \in WhiteSpace}

extractDisplayName(recipient) ==
    IF ~IsString(recipient) \/ recipient = <<>> THEN <<>>
    ELSE IF DisplayPrefixes(recipient) # {}
         THEN trim(SubSeq(recipient, 1, Min(DisplayPrefixes(recipient))))
         ELSE trim(recipient)

(***************************************************************************)
(* Step: Sort                                                              *)
(***************************************************************************)
\* the comparator handed to Array.prototype.sort: negative, zero or positive
sortComparator(a, b) ==
    LET nameA == toLowerCase(extractDisplayName(a))
        nameB == toLowerCase(extractDisplayName(b))
    IN  IF nameA = <<>> /\ nameB = <<>>
        THEN localeCompare(toLowerCase(extractEmail(a)),
                           toLowerCase(extractEmail(b)))
        ELSE localeCompare(nameA, nameB)

RECURSIVE InsertByComparatorOnce(_, _)
\* a variant that leaves out an entry comparing equal to one already placed
InsertByComparatorOnce(x, sorted) ==
    IF sorted = <<>> THEN <<x>>
    ELSE IF sortComparator(Head(sorted), x) = 0 THEN sorted
    ELSE IF sortComparator(Head(sorted), x) < 0
         THEN <<Head(sorted)>> \o InsertByComparatorOnce(x, Tail(sorted))
         ELSE <<x>> \o sorted

RECURSIVE InsertByComparator(_, _)
\* x put into the sorted list after every entry that does not compare greater
\* (Array.prototype.sort is stable)
InsertByComparator(x, sorted) ==
    IF sorted = <<>> THEN <<x>>
    ELSE IF sortComparator(Head(sorted), x) <= 0
         THEN <<Head(sorted)>> \o InsertByComparator(x, Tail(sorted))
         ELSE <<x>> \o sorted

RECURSIVE sortAlphabetical(_)
sortAlphabetical(recipients) ==
    IF recipients = <<>> THEN <<>>
    ELSE InsertByComparator(recipients[Len(recipients)],
                            sortAlphabetical(SubSeq(recipients, 1,
                                                    Len(recipients) - 1)))

Lists(state) == [to |-> state.to, cc |-> state.cc, bcc |-> state.bcc]

TotalLen(lists) == Len(lists.to) + Len(lists.cc) + Len(lists.bcc)

\* {...state, to, cc, bcc, actions: [...state.actions, action]}
\* a variant that records the action but leaves the lists of the state as
\* they were
WithListsStale(state, lists, action) ==
    [state EXCEPT !.actions = Append(state.actions, action)]

\* a step that hands the entries of cc over to the to field
WithListsMerged(state, lists, action) ==
    [state EXCEPT !.to = lists.to \o lists.cc, !.cc = <<>>,
                  !.bcc = lists.bcc,
                  !.actions = Append(state.actions, action)]

WithLists(state, lists, action) ==
    [state EXCEPT !.to = lists.to, !.cc = lists.cc, !.bcc = lists.bcc,
                  !.actions = Append(state.actions, action)]

\* the ActionRecord of sortStep and the state it returns
SortResult(state, input, output) ==
    WithLists(state, output,
              [type      |-> "sort",
               input     |-> input,
               output    |-> output,
               processed |-> TotalLen(input)])

sortStep(state) ==
    SortResult(state, Lists(state),
               [to  |-> sortAlphabetical(state.to),
                cc  |-> sortAlphabetical(state.cc),
                bcc |-> sortAlphabetical(state.bcc)])

(***************************************************************************)
(* Step: Dedupe                                                            *)
(***************************************************************************)
NormalizedEmail(recipient) == toLowerCase(extractEmail(recipient))

RECURSIVE ScanUnseenForgetful(_, _, _, _)
\* a variant that deletes an email from the Set when it removes an entry
ScanUnseenForgetful(list, seen, kept, removed) ==
    IF list = <<>> THEN [kept |-> kept, removed |-> removed, seen |-> seen]
    ELSE IF NormalizedEmail(Head(list)) \in seen
         THEN ScanUnseenForgetful(Tail(list),
                                  seen \ {NormalizedEmail(Head(list))},
                                  kept, Append(removed, Head(list)))
         ELSE ScanUnseenForgetful(Tail(list),
                                  seen \cup {NormalizedEmail(Head(list))},
                                  Append(kept, Head(list)), removed)

RECURSIVE ScanUnseen(_, _, _, _)
\* one pass over a list with a Set of the emails already seen: an entry
\* whose email is in the Set goes to removed, any other is kept and its
\* email added
ScanUnseen(list, seen, kept, removed) ==
    IF list = <<>> THEN [kept |-> kept, removed |-> removed, seen |-> seen]
    ELSE IF NormalizedEmail(Head(list)) \in seen
         THEN ScanUnseen(Tail(list), seen, kept, Append(removed, Head(list)))
         ELSE ScanUnseen(Tail(list), seen \cup {NormalizedEmail(Head(list))},
                         Append(kept, Head(list)), removed)

removeDuplicates(recipients) ==
    [unique  |-> ScanUnseen(recipients, {}, <<>>, <<>>).kept,
     removed |-> ScanUnseen(recipients, {}, <<>>, <<>>).removed]

RECURSIVE CrossScan(_, _, _, _)
\* the forEach loops over uniqueTo, uniqueCc and uniqueBcc, in this order,
\* sharing allEmails (seen) and crossArrayRemoved (removed); finals collects
\* finalTo, finalCc and finalBcc
CrossScan(uniques, seen, finals, removed) ==
    IF uniques = <<>> THEN [finals |-> finals, removed |-> removed]
    ELSE CrossScan(Tail(uniques),
                   ScanUnseen(Head(uniques), seen, <<>>, removed).seen,
                   Append(finals,
                          ScanUnseen(Head(uniques), seen, <<>>, removed).kept),
                   ScanUnseen(Head(uniques), seen, <<>>, removed).removed)

\* a variant that leaves the entries removed across fields out of removed
DedupeReturnWithinOnly(uTo, uCc, uBcc, cross) ==
    [to  |-> cross.finals[1],
     cc  |-> cross.finals[2],
     bcc |-> cross.finals[3],
     removed |-> uTo.removed \o uCc.removed \o uBcc.removed]

\* the value dedupeArrays returns, from the three removeDuplicates results
\* and the result of the three loops
DedupeReturn(uTo, uCc, uBcc, cross) ==
    [to  |-> cross.finals[1],
     cc  |-> cross.finals[2],
     bcc |-> cross.finals[3],
     removed |-> uTo.removed \o uCc.removed \o uBcc.removed \o cross.removed]

\* a variant whose cross-field pass takes bcc first and to last
CrossDedupeBccFirst(uTo, uCc, uBcc) ==
    LET cross == CrossScan(<<uBcc.unique, uCc.unique, uTo.unique>>, {}, <<>>,
                           <<>>)
    IN  [to  |-> cross.finals[3],
         cc  |-> cross.finals[2],
         bcc |-> cross.finals[1],
         removed |-> uTo.removed \o uCc.removed \o uBcc.removed
                     \o cross.removed]

\* the field order of the cross-field pass: to, then cc, then bcc
CrossDedupe(uTo, uCc, uBcc) ==
    DedupeReturn(uTo, uCc, uBcc,
                 CrossScan(<<uTo.unique, uCc.unique, uBcc.unique>>, {}, <<>>,
                           <<>>))

dedupeArrays(to, cc, bcc) ==
    CrossDedupe(removeDuplicates(to), removeDuplicates(cc),
                removeDuplicates(bcc))

\* the ActionRecord of dedupeStep and the state it returns
DedupeResult(state, input, result) ==
    WithLists(state, [to |-> result.to, cc |-> result.cc, bcc |-> result.bcc],
              [type            |-> "dedupe",
               input           |-> input,
               removed         |-> result.removed,
               output          |-> [to  |-> result.to,
                                    cc  |-> result.cc,
                                    bcc |-> result.bcc],
               processed       |-> TotalLen(input),
               duplicatesFound |-> Len(result.removed)])

dedupeStep(state) ==
    DedupeResult(state, Lists(state),
                 dedupeArrays(state.to, state.cc, state.bcc))

(***************************************************************************)
(* Step: Validate                                                          *)
(***************************************************************************)
\* the literals of validateEmailFormat
ShortLimit == 3

MaxLocalLen == 64

MaxDomainLen == 253

MaxLabelInner == 61

MinTldLen == 2

\* the keys and the values of COMMON_TYPOS
TypoKeys ==
    << <<"g","m","i","a","l",".","c","o","m">>,
       <<"g","m","a","i",".","c","o","m">>,
       <<"g","m","a","l",".","c","o","m">>,
       <<"y","a","h","o","o","o",".","c","o","m">>,
       <<"y","a","h","o",".","c","o","m">>,
       <<"h","o","t","m","i","a","l",".","c","o","m">>,
       <<"h","o","t","m","i","a","l",".","c","o">>,
       <<"o","u","t","l","o","k",".","c","o","m">>,
       <<"o","u","t","l","o","o",".","c","o","m">>,
       <<"m","i","c","r","o","s","f","t",".","c","o","m">>,
       <<"m","i","r","c","o","s","o","f","t",".","c","o","m">> >>

GmailCom == <<"g","m","a","i","l",".","c","o","m">>

YahooCom == <<"y","a","h","o","o",".","c","o","m">>

HotmailCom == <<"h","o","t","m","a","i","l",".","c","o","m">>

OutlookCom == <<"o","u","t","l","o","o","k",".","c","o","m">>

MicrosoftCom == <<"m","i","c","r","o","s","o","f","t",".","c","o","m">>

TypoValues ==
    <<GmailCom, GmailCom, GmailCom, YahooCom, YahooCom, HotmailCom,
      HotmailCom, OutlookCom, OutlookCom, MicrosoftCom, MicrosoftCom>>

\* COMMON_TYPOS[key], or <<>> for undefined
COMMON_TYPOS(key) ==
    IF \E i \in 1..Len(TypoKeys) : TypoKeys[i] = key
    THEN TypoValues[CHOOSE i \in 1..Len(TypoKeys) : TypoKeys[i] = key]
    ELSE <<>>

commonDomains ==
    <<GmailCom, YahooCom, HotmailCom, OutlookCom, MicrosoftCom>>

\* the characters of the local part in emailRegex (all but the backquote,
\* which cannot be written in a string here and is in no input below)
LocalClass ==
    AlphaNum \cup {".", "!", "#", "$", "%", "&", "'", "*", "+", "/", "=",
                   "?", "^", "_", "{", "|", "}", "~", "-"}

\* [a-zA-Z0-9](?:[a-zA-Z0-9-]{0,61}[a-zA-Z0-9])?
IsLabel(l) ==
    /\ Len(l) >= 1
    /\ Len(l) <= MaxLabelInner + 2
    /\ l[1] \in AlphaNum
    /\ l[Len(l)] \in AlphaNum
    /\ \A i \in 1..Len(l) : l[i] \in AlphaNum \cup {"-"}

\* emailRegex.test(email)
emailRegex(email) ==
    LET parts == split(email, "@")
    IN  /\ Len(parts) = 2
        /\ Len(parts[1]) >= 1
        /\ \A i \in 1..Len(parts[1]) : parts[1][i] \in LocalClass
        /\ LET labels == split(parts[2], ".")
           IN  \A i \in 1..Len(labels) : IsLabel(labels[i])

Invalid(message) == [isValid |-> FALSE, message |-> message]

\* a variant without the check of the top-level domain
PartChecksAnyTld(email, localPart, domainPart) ==
    IF Len(localPart) = 0
    THEN Invalid("Email must have content before @ symbol")
    ELSE IF Len(localPart) > MaxLocalLen
    THEN Invalid("Local part of email is too long")
    ELSE IF Len(domainPart) = 0
    THEN Invalid("Email must have content after @ symbol")
    ELSE IF Len(domainPart) > MaxDomainLen
    THEN Invalid("Domain part of email is too long")
    ELSE IF ~includes(domainPart, <<".">>)
    THEN Invalid("Domain must contain at least one dot")
    ELSE IF ~emailRegex(email)
    THEN Invalid("Invalid email format")
    ELSE IF includes(email, <<".", ".">>)
    THEN Invalid("Email contains consecutive dots")
    ELSE IF startsWith(email, <<".">>) \/ endsWith(email, <<".">>)
    THEN Invalid("Email starts or ends with a dot")
    ELSE IF includes(email, <<"@", ".">>) \/ includes(email, <<".", "@">>)
    THEN Invalid("Invalid dot placement near @ symbol")
    ELSE IF startsWith(email, <<"-">>) \/ endsWith(email, <<"-">>)
    THEN Invalid("Email starts or ends with hyphen")
    ELSE [isValid |-> TRUE, message |-> ""]

\* the checks made once the email has exactly one "@"
PartChecks(email, localPart, domainPart) ==
    IF Len(localPart) = 0
    THEN Invalid("Email must have content before @ symbol")
    ELSE IF Len(localPart) > MaxLocalLen
    THEN Invalid("Local part of email is too long")
    ELSE IF Len(domainPart) = 0
    THEN Invalid("Email must have content after @ symbol")
    ELSE IF Len(domainPart) > MaxDomainLen
    THEN Invalid("Domain part of email is too long")
    ELSE IF ~includes(domainPart, <<".">>)
    THEN Invalid("Domain must contain at least one dot")
    ELSE IF ~emailRegex(email)
    THEN Invalid("Invalid email format")
    ELSE IF includes(email, <<".", ".">>)
    THEN Invalid("Email contains consecutive dots")
    ELSE IF startsWith(email, <<".">>) \/ endsWith(email, <<".">>)
    THEN Invalid("Email starts or ends with a dot")
    ELSE IF includes(email, <<"@", ".">>) \/ includes(email, <<".", "@">>)
    THEN Invalid("Invalid dot placement near @ symbol")
    ELSE IF startsWith(email, <<"-">>) \/ endsWith(email, <<"-">>)
    THEN Invalid("Email starts or ends with hyphen")
    ELSE IF Len(split(domainPart, ".")[Len(split(domainPart, "."))]) < MinTldLen
    THEN Invalid("Top-level domain must be at least 2 characters")
    ELSE [isValid |-> TRUE, message |-> ""]

\* the checks made on the trimmed email
TrimmedChecks(email) ==
    IF Len(email) <= ShortLimit /\ ~includes(email, <<"@">>)
    THEN Invalid("Email address is too short or malformed")
    ELSE IF endsWith(email, <<":">>) /\ ~includes(email, <<"@">>)
    THEN Invalid("Email appears to be incomplete or malformed")
    ELSE IF Len(email) = 0
    THEN Invalid("Empty email address")
    ELSE IF ~includes(email, <<"@">>)
    THEN Invalid("Email must contain @ symbol")
    ELSE IF Len(split(email, "@")) # 2
    THEN Invalid("Email must contain exactly one @ symbol")
    ELSE PartChecks(email, split(email, "@")[1], split(email, "@")[2])

validateEmailFormat(email) ==
    IF email = <<>> \/ ~IsString(email)
    THEN Invalid("Empty or invalid email address")
    ELSE TrimmedChecks(trim(email))

Min3(a, b, c) == Min({a, b, c})

RECURSIVE EditRow(_, _, _, _)
\* row i of the matrix from row i-1 (prev) and the character ch of str2;
\* cur holds the columns 0 .. Len(cur)-1 already filled
EditRow(prev, ch, str1, cur) ==
    IF Len(cur) = Len(str1) + 1 THEN cur
    ELSE LET j == Len(cur)
         IN  EditRow(prev, ch, str1,
                     Append(cur,
                            IF ch = str1[j] THEN prev[j]
                            ELSE Min3(prev[j] + 1, cur[j] + 1, prev[j + 1] + 1)))

RECURSIVE EditRows(_, _, _)
\* the rows 0 .. Len(str2) of the matrix; matrix holds the rows already built,
\* and row i starts with the value i in column 0
EditRows(matrix, str1, str2) ==
    IF Len(matrix) = Len(str2) + 1 THEN matrix
    ELSE EditRows(Append(matrix,
                         EditRow(matrix[Len(matrix)], str2[Len(matrix)], str1,
                                 <<Len(matrix)>>)),
                  str1, str2)

getEditDistance(str1, str2) ==
    EditRows(<<[j \in 1..(Len(str1) + 1) |-> j - 1]>>, str1, str2)
        [Len(str2) + 1][Len(str1) + 1]

\* similarity > 0.8, where similarity = (longer.length - distance) / longer.length
\* and 0.8 = SimilarNum / SimilarDen
SimilarNum == 4

SimilarDen == 5

MaxLenDiff == 2

calculateSimilarityAboveThreshold(str1, str2) ==
    LET longer  == IF Len(str1) > Len(str2) THEN str1 ELSE str2
        shorter == IF Len(str1) > Len(str2) THEN str2 ELSE str1
    IN  IF Len(longer) = 0 THEN TRUE
        ELSE SimilarDen * (Len(longer) - getEditDistance(longer, shorter))
               > SimilarNum * Len(longer)

\* s.replace(new RegExp(escaped pattern, "i"), replacement): the first
\* case-insensitive occurrence of pattern in s is replaced
ReplaceFirstIgnoreCase(s, pattern, replacement) ==
    LET hits == Occurrences(toLowerCase(s), toLowerCase(pattern))
    IN  IF hits = {} THEN s
        ELSE SubSeq(s, 1, Min(hits) - 1) \o replacement
             \o SubSeq(s, Min(hits) + Len(pattern), Len(s))

Abs(n) == IF n < 0 THEN -n ELSE n

NoTypo == [hasTypo |-> FALSE, suggestion |-> <<>>]

Typo(suggestion) == [hasTypo |-> TRUE, suggestion |-> suggestion]

\* the positions in commonDomains of the domains similar to lowerDomain
SimilarDomains(lowerDomain) ==
    {i \in 1..Len(commonDomains) :
        /\ Abs(Len(lowerDomain) - Len(commonDomains[i])) <= MaxLenDiff
        /\ calculateSimilarityAboveThreshold(lowerDomain, commonDomains[i])}

\* the loop over commonDomains returns at the first similar one
FirstSimilar(email, domain, near) ==
    IF near # {}
    THEN Typo(ReplaceFirstIgnoreCase(email, domain, commonDomains[Min(near)]))
    ELSE NoTypo

TypoLookup(email, domain, lowerDomain) ==
    IF COMMON_TYPOS(lowerDomain) # <<>>
    THEN Typo(ReplaceFirstIgnoreCase(email, domain, COMMON_TYPOS(lowerDomain)))
    ELSE FirstSimilar(email, domain, SimilarDomains(lowerDomain))

checkForTypos(email) ==
    IF Len(split(email, "@")) < 2 THEN NoTypo
    ELSE IF split(email, "@")[2] = <<>> THEN NoTypo
    ELSE TypoLookup(email, split(email, "@")[2],
                    toLowerCase(split(email, "@")[2]))

\* the results object validateRecipient returns
Classified(recipient, email, formatCheck, typoCheck) ==
    IF ~formatCheck.isValid
    THEN [address |-> recipient, email |-> email, isValid |-> FALSE,
          status |-> "error",
          warnings |-> <<[text |-> formatCheck.message, arg |-> <<>>]>>,
          suggestions |-> <<>>]
    ELSE IF typoCheck.hasTypo
    THEN [address |-> recipient, email |-> email, isValid |-> TRUE,
          status |-> "warning",
          warnings |-> <<[text |-> "Did you mean",
                          arg |-> typoCheck.suggestion]>>,
          suggestions |-> <<typoCheck.suggestion>>]
    ELSE [address |-> recipient, email |-> email, isValid |-> TRUE,
          status |-> "valid", warnings |-> <<>>, suggestions |-> <<>>]

ValidateParsed(recipient, email) ==
    Classified(recipient, email, validateEmailFormat(email),
               checkForTypos(email))

validateRecipient(recipient) ==
    ValidateParsed(recipient, extractEmail(recipient))

RECURSIVE FilterSeq(_, _)
\* the entries of seq whose position is in keep, in order
FilterSeq(seq, keep) ==
    IF seq = <<>> THEN <<>>
    ELSE FilterSeq(SubSeq(seq, 1, Len(seq) - 1), keep)
         \o (IF Len(seq) \in keep THEN <<seq[Len(seq)]>> ELSE <<>>)

\* a variant that pushes a recipient only when its status is valid
FilteredValidOnly(recipients, results) ==
    [results |-> results,
     validRecipients |->
        FilterSeq(recipients,
                  {i \in 1..Len(recipients) : results[i].status = "valid"})]

\* results and validRecipients, from the results; validateRecipient raises
\* on no value, so the catch clause of the loop is never entered
Filtered(recipients, results) ==
    [results |-> results,
     validRecipients |->
        FilterSeq(recipients,
                  {i \in 1..Len(recipients) :
                      results[i].status \in {"valid", "warning"}})]

validateAndFilterRecipients(recipients) ==
    Filtered(recipients,
             [i \in 1..Len(recipients) |-> validateRecipient(recipients[i])])

WithStatus(results, status) ==
    FilterSeq(results, {i \in 1..Len(results) : results[i].status = status})

\* the ActionRecord of validateStep and the state it returns
ValidateAction(state, input, output, all, errors, warnings, valid) ==
    WithLists(state, output,
              [type              |-> "validate",
               input             |-> input,
               output            |-> output,
               validationResults |-> all,
               errors            |-> errors,
               warnings          |-> warnings,
               processed         |-> TotalLen(input),
               validCount        |-> Len(valid),
               warningCount      |-> Len(warnings),
               errorCount        |-> Len(errors),
               removedInvalid    |-> Len(errors)])

ValidateCounted(state, input, output, all) ==
    ValidateAction(state, input, output, all, WithStatus(all, "error"),
                   WithStatus(all, "warning"), WithStatus(all, "valid"))

ValidateResult(state, processedTo, processedCc, processedBcc) ==
    ValidateCounted(state, Lists(state),
                    [to  |-> processedTo.validRecipients,
                     cc  |-> processedCc.validRecipients,
                     bcc |-> processedBcc.validRecipients],
                    processedTo.results \o processedCc.results
                    \o processedBcc.results)

validateStep(state) ==
    ValidateResult(state, validateAndFilterRecipients(state.to),
                   validateAndFilterRecipients(state.cc),
                   validateAndFilterRecipients(state.bcc))

(***************************************************************************)
(* Step: PrioritizeInternal                                                *)
(***************************************************************************)
\* domain === internalDomain || domain.endsWith('.' + internalDomain)
DomainMatches(domain, internalDomain) ==
    \/ domain = toLowerCase(internalDomain)
    \/ endsWith(domain, <<".">> \o toLowerCase(internalDomain))

\* email.split('@')[1].toLowerCase()
DomainOf(email) == toLowerCase(split(email, "@")[2])

\* the indices (from 0) the loop over internalDomains reaches before it
\* returns or throws
MatchingIndices(email, internalDomains) ==
    {i \in 0..(Len(internalDomains) - 1) :
        /\ IsString(internalDomains[i + 1])
        /\ DomainMatches(DomainOf(email), internalDomains[i + 1])}

\* internalDomains[i].toLowerCase() on a value that is no string raises a
\* TypeError, when the loop gets to it before a match
getDomainIndexThrows(email, internalDomains) ==
    /\ email # <<>>
    /\ includes(email, <<"@">>)
    /\ \E i \in 0..(Len(internalDomains) - 1) :
          /\ ~IsString(internalDomains[i + 1])
          /\ \A j \in MatchingIndices(email, internalDomains) : j > i

\* a variant that returns the last matching index
getDomainIndexLast(email, internalDomains) ==
    IF email = <<>> \/ ~includes(email, <<"@">>) THEN -1
    ELSE IF MatchingIndices(email, internalDomains) = {} THEN -1
    ELSE Max(MatchingIndices(email, internalDomains))

getDomainIndex(email, internalDomains) ==
    IF email = <<>> \/ ~includes(email, <<"@">>) THEN -1
    ELSE IF MatchingIndices(email, internalDomains) = {} THEN -1
    ELSE Min(MatchingIndices(email, internalDomains))

\* (internalDomains[i] || "").toLowerCase().trim() of the task pane's copy
taskpaneCandidate(internalDomain) ==
    IF IsString(internalDomain) THEN trim(toLowerCase(internalDomain))
    ELSE <<>>

\* the indices (from 0) at which the loop of the task pane's copy matches
taskpaneMatching(domain, internalDomains) ==
    {i \in 0..(Len(internalDomains) - 1) :
        /\ taskpaneCandidate(internalDomains[i + 1]) # <<>>
        /\ \/ domain = taskpaneCandidate(internalDomains[i + 1])
           \/ endsWith(domain,
                       <<".">> \o taskpaneCandidate(internalDomains[i + 1]))}

taskpaneFirstMatch(matching) ==
    IF matching = {} THEN -1 ELSE Min(matching)

\* getDomainIndex of the task pane
taskpaneGetDomainIndex(email, internalDomains) ==
    IF ~IsString(email) \/ email = <<>> \/ ~includes(email, <<"@">>) THEN -1
    ELSE IF internalDomains = <<>> THEN -1
    ELSE IF Len(split(email, "@")) # 2 THEN -1
    ELSE IF trim(toLowerCase(split(email, "@")[2])) = <<>> THEN -1
    ELSE taskpaneFirstMatch(
             taskpaneMatching(trim(toLowerCase(split(email, "@")[2])),
                              internalDomains))

\* a variant that puts an entry before the entries of its own domainIndex
CompareIndexedTieAfter(a, b, ia, ib, sortAlphabetically) ==
    IF ia # ib THEN ia - ib ELSE 1

\* a variant that orders internal entries by descending domainIndex
CompareIndexedDescending(a, b, ia, ib, sortAlphabetically) ==
    IF ia # ib THEN ib - ia
    ELSE IF sortAlphabetically THEN sortComparator(a, b)
    ELSE 0

\* the comparator of internal.sort, from the two entries' domainIndex
CompareIndexed(a, b, ia, ib, sortAlphabetically) ==
    IF ia # ib THEN ia - ib
    ELSE IF sortAlphabetically THEN sortComparator(a, b)
    ELSE 0

internalComparator(a, b, internalDomains, sortAlphabetically) ==
    CompareIndexed(a, b, getDomainIndex(extractEmail(a), internalDomains),
                   getDomainIndex(extractEmail(b), internalDomains),
                   sortAlphabetically)

RECURSIVE InsertInternal(_, _, _, _)
InsertInternal(x, sorted, internalDomains, sortAlphabetically) ==
    IF sorted = <<>> THEN <<x>>
    ELSE IF internalComparator(Head(sorted), x, internalDomains,
                               sortAlphabetically) <= 0
         THEN <<Head(sorted)>>
              \o InsertInternal(x, Tail(sorted), internalDomains,
                                sortAlphabetically)
         ELSE <<x>> \o sorted

RECURSIVE SortInternal(_, _, _)
SortInternal(internal, internalDomains, sortAlphabetically) ==
    IF internal = <<>> THEN <<>>
    ELSE InsertInternal(internal[Len(internal)],
                        SortInternal(SubSeq(internal, 1, Len(internal) - 1),
                                     internalDomains, sortAlphabetically),
                        internalDomains, sortAlphabetically)

\* the positions of the entries pushed to internal
InternalPositions(recipients, internalDomains) ==
    {i \in 1..Len(recipients) :
        getDomainIndex(extractEmail(recipients[i]), internalDomains) >= 0}

\* internal sorted, then external, sorted only when sortAlphabetically
Prioritized(recipients, internalDomains, sortAlphabetically, isInternal) ==
    SortInternal(FilterSeq(recipients, isInternal), internalDomains,
                 sortAlphabetically)
    \o (IF sortAlphabetically
        THEN sortAlphabetical(FilterSeq(recipients,
                                        (1..Len(recipients)) \ isInternal))
        ELSE FilterSeq(recipients, (1..Len(recipients)) \ isInternal))

prioritizeInternal(recipients, internalDomains, sortAlphabetically) ==
    IF recipients = <<>> \/ internalDomains = <<>> THEN recipients
    ELSE Prioritized(recipients, internalDomains, sortAlphabetically,
                     InternalPositions(recipients, internalDomains))

\* some call of getDomainIndex made for the list raises
DomainScanThrows(recipients, internalDomains) ==
    /\ recipients # <<>>
    /\ internalDomains # <<>>
    /\ \E i \in 1..Len(recipients) :
          getDomainIndexThrows(extractEmail(recipients[i]), internalDomains)

SeqIncludes(seq, x) == \E i \in 1..Len(seq) : seq[i] = x

\* the ActionRecord of prioritizeInternalStep and the state it returns
PrioritizeResult(state, input, output) ==
    WithLists(state, output,
              [type      |-> "prioritizeInternal",
               input     |-> input,
               output    |-> output,
               processed |-> TotalLen(input)])

PrioritizeWith(state, sortAlphabetically) ==
    PrioritizeResult(state, Lists(state),
        [to  |-> prioritizeInternal(state.to, state.internalDomains,
                                    sortAlphabetically),
         cc  |-> prioritizeInternal(state.cc, state.internalDomains,
                                    sortAlphabetically),
         bcc |-> prioritizeInternal(state.bcc, state.internalDomains,
                                    sortAlphabetically)])

prioritizeInternalStep(state) ==
    PrioritizeWith(state, SeqIncludes(state.enabledSteps, "sort"))

(***************************************************************************)
(* Step: RemoveExternal                                                    *)
(***************************************************************************)
\* a variant that takes only the configured domains themselves, and no
\* subdomain of them, as internal
isInternalDomainExact(email, internalDomains) ==
    /\ email # <<>>
    /\ includes(email, <<"@">>)
    /\ \E i \in 1..Len(internalDomains) :
          /\ IsString(internalDomains[i])
          /\ DomainOf(email) = toLowerCase(internalDomains[i])

isInternalDomain(email, internalDomains) ==
    /\ email # <<>>
    /\ includes(email, <<"@">>)
    /\ \E i \in 1..Len(internalDomains) :
          /\ IsString(internalDomains[i])
          /\ DomainMatches(DomainOf(email), internalDomains[i])

Reverse(seq) == <<>> \o [i \in 1..Len(seq) |-> seq[Len(seq) + 1 - i]]

\* a variant that pushes the entries kept in reverse
PartitionedBackwards(recipients, keep) ==
    [filtered |-> Reverse(FilterSeq(recipients, keep)),
     removed  |-> FilterSeq(recipients, (1..Len(recipients)) \ keep)]

\* filtered and removed, from the positions of the entries kept
Partitioned(recipients, keep) ==
    [filtered |-> FilterSeq(recipients, keep),
     removed  |-> FilterSeq(recipients, (1..Len(recipients)) \ keep)]

\* a variant without the early return on an empty domain list
removeExternalNoDefault(recipients, internalDomains) ==
    IF recipients = <<>> THEN [filtered |-> <<>>, removed |-> <<>>]
    ELSE Partitioned(recipients,
                     {i \in 1..Len(recipients) :
                         isInternalDomain(extractEmail(recipients[i]),
                                          internalDomains)})

removeExternal(recipients, internalDomains) ==
    IF recipients = <<>> THEN [filtered |-> <<>>, removed |-> <<>>]
    ELSE IF internalDomains = <<>>
    THEN [filtered |-> recipients, removed |-> <<>>]
    ELSE Partitioned(recipients,
                     {i \in 1..Len(recipients) :
                         isInternalDomain(extractEmail(recipients[i]),
                                          internalDomains)})

\* the ActionRecord of removeExternalStep and the state it returns
RemoveResult(state, input, toResult, ccResult, bccResult) ==
    WithLists(state,
              [to  |-> toResult.filtered,
               cc  |-> ccResult.filtered,
               bcc |-> bccResult.filtered],
              [type      |-> "removeExternal",
               input     |-> input,
               output    |-> [to  |-> toResult.filtered,
                              cc  |-> ccResult.filtered,
                              bcc |-> bccResult.filtered],
               removed   |-> [to    |-> toResult.removed,
                              cc    |-> ccResult.removed,
                              bcc   |-> bccResult.removed,
                              total |-> Len(toResult.removed)
                                        + Len(ccResult.removed)
                                        + Len(bccResult.removed)],
               processed |-> TotalLen(input)])

removeExternalStep(state) ==
    RemoveResult(state, Lists(state),
                 removeExternal(state.to, state.internalDomains),
                 removeExternal(state.cc, state.internalDomains),
                 removeExternal(state.bcc, state.internalDomains))

(***************************************************************************)
(* Step: FlagExternal                                                      *)
(***************************************************************************)
\* a variant that takes every domain but the organization domain itself, its
\* subdomains too, as external
isExternalEmailExact(email, orgDomain) ==
    IF email = <<>> \/ orgDomain = <<>> THEN FALSE
    ELSE IF Len(split(email, "@")) < 2 THEN TRUE
    ELSE IF split(email, "@")[2] = <<>> THEN TRUE
    ELSE toLowerCase(split(email, "@")[2]) # toLowerCase(orgDomain)

isExternalEmail(email, orgDomain) ==
    IF email = <<>> \/ orgDomain = <<>> THEN FALSE
    ELSE IF Len(split(email, "@")) < 2 THEN TRUE
    ELSE IF split(email, "@")[2] = <<>> THEN TRUE
    ELSE ~DomainMatches(toLowerCase(split(email, "@")[2]), orgDomain)

\* email.split('@')[1] || 'unknown'
LiteralDomain(email) ==
    IF Len(split(email, "@")) < 2 THEN <<"u","n","k","n","o","w","n">>
    ELSE IF split(email, "@")[2] = <<>> THEN <<"u","n","k","n","o","w","n">>
    ELSE split(email, "@")[2]

\* the object pushed for a recipient
Categorized(recipient, email, orgDomain) ==
    [recipient  |-> recipient,
     email      |-> email,
     domain     |-> LiteralDomain(email),
     isExternal |-> isExternalEmail(email, orgDomain)]

\* internal and external, from the objects of all the recipients
SplitCategorized(items) ==
    [internal |-> FilterSeq(items, {i \in 1..Len(items) : ~items[i].isExternal}),
     external |-> FilterSeq(items, {i \in 1..Len(items) : items[i].isExternal})]

categorizeRecipients(recipients, orgDomain) ==
    SplitCategorized([i \in 1..Len(recipients) |->
                        Categorized(recipients[i], extractEmail(recipients[i]),
                                    orgDomain)])

\* names every object literal inherits from Object.prototype (some of them):
\* acc[domain] is then no array although the domain was never added
InheritedKeys ==
    { <<"c","o","n","s","t","r","u","c","t","o","r">>,
      <<"t","o","S","t","r","i","n","g">>,
      <<"v","a","l","u","e","O","f">>,
      <<"_","_","p","r","o","t","o","_","_">> }

\* categorized.external.map(r => ({...r, field}))
WithField(items, field) ==
    [i \in 1..Len(items) |->
        [recipient  |-> items[i].recipient,
         email      |-> items[i].email,
         domain     |-> items[i].domain,
         isExternal |-> items[i].isExternal,
         field      |-> field]]

AllExternal(state) ==
    WithField(categorizeRecipients(state.to, state.orgDomain).external, "to")
    \o WithField(categorizeRecipients(state.cc, state.orgDomain).external, "cc")
    \o WithField(categorizeRecipients(state.bcc, state.orgDomain).external,
                 "bcc")

HasInheritedDomain(allExternal) ==
    \E i \in 1..Len(allExternal) : allExternal[i].domain \in InheritedKeys

\* acc[domain].push(recipient) on an inherited property raises a TypeError
flagExternalStepThrows(state) ==
    /\ state.orgDomain # <<>>
    /\ HasInheritedDomain(AllExternal(state))

\* the reduce over allExternal: each domain with its recipients
GroupByDomain(allExternal, domains) ==
    [d \in domains |->
        FilterSeq(allExternal,
                  {i \in 1..Len(allExternal) : allExternal[i].domain = d})]

\* the ActionRecord of flagExternalStep and the state it returns
FlagResult(state, lists, allExternal, externalDomains) ==
    [state EXCEPT !.actions =
        Append(state.actions,
               [type      |-> "flagExt",
                input     |-> lists,
                output    |-> lists,
                flagged   |-> [i \in 1..Len(allExternal) |->
                                  allExternal[i].recipient],
                externalByDomain |-> externalDomains,
                summary   |-> [totalRecipients |-> TotalLen(lists),
                               externalCount   |-> Len(allExternal),
                               internalCount   |-> TotalLen(lists)
                                                   - Len(allExternal),
                               uniqueExternalDomains |->
                                   Cardinality(DOMAIN externalDomains)],
                orgDomain |-> state.orgDomain,
                processed |-> TotalLen(lists)])]

FlagGrouped(state, allExternal) ==
    FlagResult(state, Lists(state), allExternal,
               GroupByDomain(allExternal,
                             {allExternal[i].domain : i \in 1..Len(allExternal)}))

\* the ActionRecord pushed when no organization domain is given
FlagSkipped(state, lists) ==
    [state EXCEPT !.actions =
        Append(state.actions,
               [type      |-> "flagExt",
                input     |-> lists,
                output    |-> lists,
                flagged   |-> <<>>,
                processed |-> 0,
                skipped   |-> TRUE,
                message   |-> "No organization domain provided"])]

flagExternalStep(state) ==
    IF state.orgDomain = <<>> THEN FlagSkipped(state, Lists(state))
    ELSE FlagGrouped(state, AllExternal(state))

(***************************************************************************)
(* The ribbon command: quickClean and its fallback                         *)
(***************************************************************************)
\* the string quickClean makes of a recipient {displayName, emailAddress};
\* the template writes an emailAddress that is no string as undefined
recipientString(r) ==
    IF r.displayName # <<>>
    THEN r.displayName \o <<" ", "<">>
         \o (IF IsString(r.emailAddress) THEN r.emailAddress
             ELSE <<"u","n","d","e","f","i","n","e","d">>)
         \o <<">">>
    ELSE r.emailAddress

recipientStrings(recipients) ==
    [i \in 1..Len(recipients) |-> recipientString(recipients[i])]

\* (recipient.emailAddress || "").toLowerCase()
OfficeEmail(recipient) ==
    IF IsString(recipient.emailAddress) THEN toLowerCase(recipient.emailAddress)
    ELSE <<>>

RECURSIVE OfficeScan(_, _, _)
\* one pass over a list with a Set of the emails already seen
OfficeScan(list, seen, kept) ==
    IF list = <<>> THEN [kept |-> kept, seen |-> seen]
    ELSE IF OfficeEmail(Head(list)) \in seen
         THEN OfficeScan(Tail(list), seen, kept)
         ELSE OfficeScan(Tail(list), seen \cup {OfficeEmail(Head(list))},
                         Append(kept, Head(list)))

deduplicateWithinArray(recipients) == OfficeScan(recipients, {}, <<>>).kept

RECURSIVE OfficeCrossScan(_, _, _)
\* the forEach loops over uniqueTo, uniqueCc and uniqueBcc sharing allEmails
OfficeCrossScan(uniques, seen, finals) ==
    IF uniques = <<>> THEN finals
    ELSE OfficeCrossScan(Tail(uniques),
                         OfficeScan(Head(uniques), seen, <<>>).seen,
                         Append(finals,
                                OfficeScan(Head(uniques), seen, <<>>).kept))

OfficeLists(finals) == [to |-> finals[1], cc |-> finals[2], bcc |-> finals[3]]

deduplicateAllRecipients(toRecipients, ccRecipients, bccRecipients) ==
    OfficeLists(OfficeCrossScan(<<deduplicateWithinArray(toRecipients),
                                  deduplicateWithinArray(ccRecipients),
                                  deduplicateWithinArray(bccRecipients)>>,
                                {}, <<>>))

\* quickClean has read nothing
NoRibbon == [phase |-> "idle"]

(***************************************************************************)
(* Orchestrator: processRecipients                                         *)
(***************************************************************************)
VARIABLES
    payload,    \* the argument of the call
    state,      \* the local variable state
    pos,        \* how many names of state.enabledSteps the loop has taken
    pc,         \* "loop", "returned", "thrown" or "fallback"
    outcome,    \* what the call returned or raised
    previous,   \* the outcomes of the earlier calls with the same payload
    ribbon      \* the recipients quickClean read and its fallback's lists

vars == <<payload, state, pos, pc, outcome, previous, ribbon>>

RecognizedSteps ==
    {"sort", "dedupe", "validate", "prioritizeInternal", "removeExternal",
     "flagExt"}

\* what stepMap[stepName] evaluates to: one of the six functions, undefined,
\* or a property the object literal inherits from Object.prototype
stepMap(stepName) ==
    IF stepName \in RecognizedSteps THEN stepName
    ELSE IF stepName = "constructor" THEN "Object"
    ELSE IF stepName = "toString" THEN "Object.prototype.toString"
    ELSE IF stepName = "__proto__" THEN "Object.prototype"
    ELSE "undefined"

\* the value state holds after Object.prototype.toString was called as a
\* step: the string "[object Undefined]", which has no to, cc or bcc
NonObjectState == [isObject |-> FALSE]

\* stepFn(state) raises
stepThrows(stepFn, st) ==
    IF stepFn \in RecognizedSteps
    THEN \/ ~st.isObject
         \/ /\ stepFn \in {"prioritizeInternal", "removeExternal"}
            /\ \/ DomainScanThrows(st.to, st.internalDomains)
               \/ DomainScanThrows(st.cc, st.internalDomains)
               \/ DomainScanThrows(st.bcc, st.internalDomains)
         \/ /\ stepFn = "flagExt"
            /\ flagExternalStepThrows(st)
    ELSE stepFn = "Object.prototype"

\* a variant whose sort step starts from the lists of the payload instead of
\* the lists the step before it left
stepValueSortRestarts(stepFn, st) ==
    CASE stepFn = "sort"               ->
             sortStep([st EXCEPT !.to = payload.to, !.cc = payload.cc,
                                 !.bcc = payload.bcc])
      [] stepFn = "dedupe"             -> dedupeStep(st)
      [] stepFn = "validate"           -> validateStep(st)
      [] stepFn = "prioritizeInternal" -> prioritizeInternalStep(st)
      [] stepFn = "removeExternal"     -> removeExternalStep(st)
      [] stepFn = "flagExt"            -> flagExternalStep(st)
      [] stepFn = "Object"             -> st
      [] stepFn = "Object.prototype.toString" -> NonObjectState

\* the value of stepFn(state) when it does not raise
stepValue(stepFn, st) ==
    CASE stepFn = "sort"               -> sortStep(st)
      [] stepFn = "dedupe"             -> dedupeStep(st)
      [] stepFn = "validate"           -> validateStep(st)
      [] stepFn = "prioritizeInternal" -> prioritizeInternalStep(st)
      [] stepFn = "removeExternal"     -> removeExternalStep(st)
      [] stepFn = "flagExt"            -> flagExternalStep(st)
      [] stepFn = "Object"             -> st
      [] stepFn = "Object.prototype.toString" -> NonObjectState

NoOutcome == [kind |-> "none"]

\* the Error the catch clause raises: Step '<stepName>' failed: ...
StepError(stepName) == [kind |-> "thrown", name |-> "Error", step |-> stepName]

\* the TypeError of state.to.length in the return statement
ReturnError == [kind |-> "thrown", name |-> "TypeError", step |-> ""]

\* a variant whose catch clause drops the error and keeps the state
callStepSwallowing(stepFn, st, stepName) ==
    IF stepThrows(stepFn, st)
    THEN [threw |-> FALSE, state |-> st]
    ELSE [threw |-> FALSE, state |-> stepValue(stepFn, st)]

\* stepFn(state) inside try and catch
callStep(stepFn, st, stepName) ==
    IF stepThrows(stepFn, st)
    THEN [threw |-> TRUE, error |-> StepError(stepName)]
    ELSE [threw |-> FALSE, state |-> stepValue(stepFn, st)]

\* one pass of the loop body for stepName: the new state, or the error
loopBody(st, stepName) ==
    IF stepMap(stepName) = "undefined"
    THEN [threw |-> FALSE, state |-> st]
    ELSE callStep(stepMap(stepName), st, stepName)

\* a variant that keeps the actions array of the call that has just ended
initialStateLeftover(p) ==
    [isObject        |-> TRUE,
     to              |-> p.to,
     cc              |-> p.cc,
     bcc             |-> p.bcc,
     enabledSteps    |-> p.userSettings.enabledSteps,
     internalDomains |-> p.userSettings.internalDomains,
     orgDomain       |-> p.userSettings.orgDomain,
     actions         |-> IF outcome.kind = "returned" THEN outcome.actions
                         ELSE <<>>]

initialState(p) ==
    [isObject        |-> TRUE,
     to              |-> p.to,
     cc              |-> p.cc,
     bcc             |-> p.bcc,
     enabledSteps    |-> p.userSettings.enabledSteps,
     internalDomains |-> p.userSettings.internalDomains,
     orgDomain       |-> p.userSettings.orgDomain,
     actions         |-> <<>>]

returnValue(p, st) ==
    [kind    |-> "returned",
     success |-> TRUE,
     result  |-> Lists(st),
     actions |-> st.actions,
     summary |-> [totalProcessed |-> Len(p.to) + Len(p.cc) + Len(p.bcc),
                  totalRemaining |-> TotalLen(Lists(st)),
                  stepsExecuted  |-> Len(st.actions)]]

\* the array the for-of loop iterates
Steps == payload.userSettings.enabledSteps

\* the catch clause ends the call; otherwise the loop goes on with the
\* state the step returned
Advance(r) ==
    IF r.threw
    THEN /\ pc' = "thrown"
         /\ outcome' = r.error
         /\ UNCHANGED <<state, pos>>
    ELSE /\ state' = r.state
         /\ pos' = pos + 1
         /\ UNCHANGED <<pc, outcome>>

LoopIteration ==
    /\ pc = "loop"
    /\ pos < Len(Steps)
    /\ Advance(loopBody(state, Steps[pos + 1]))
    /\ UNCHANGED <<payload, previous, ribbon>>

Return ==
    /\ pc = "loop"
    /\ pos = Len(Steps)
    /\ IF state.isObject
       THEN /\ pc' = "returned"
            /\ outcome' = returnValue(payload, state)
       ELSE /\ pc' = "thrown"
            /\ outcome' = ReturnError
    /\ UNCHANGED <<payload, state, pos, previous, ribbon>>

Next == LoopIteration \/ Return

\* the else branch of quickClean, taken instead of processRecipients when
\* the library is not loaded: the fallback, with dedupe enabled, on the
\* recipients read
FallbackDedupe ==
    /\ ribbon.phase = "read"
    /\ pc = "loop"
    /\ pos = 0
    /\ pc' = "fallback"
    /\ ribbon' = [phase |-> "deduped",
                  recipients |-> ribbon.recipients,
                  processed |-> deduplicateAllRecipients(ribbon.recipients.to,
                                                         ribbon.recipients.cc,
                                                         ribbon.recipients.bcc)]
    /\ UNCHANGED <<payload, state, pos, outcome, previous>>

(***************************************************************************)
(* Inputs                                                                  *)
(***************************************************************************)
SeqsUpTo(S, n) == UNION {[1..k -> S] : k \in 0..n}

\* the list triples over pool with at most n entries in all
ListTriples(pool, n) ==
    UNION {UNION {{[to |-> a, cc |-> b, bcc |-> c] :
                      c \in SeqsUpTo(pool, n - Len(a) - Len(b))} :
                  b \in SeqsUpTo(pool, n - Len(a))} :
           a \in SeqsUpTo(pool, n)}

Payloads(triples, stepSeqs, configs) ==
    {[to |-> t.to, cc |-> t.cc, bcc |-> t.bcc,
      userSettings |-> [enabledSteps    |-> e,
                        internalDomains |-> c.internalDomains,
                        orgDomain       |-> c.orgDomain]] :
        t \in triples, e \in stepSeqs, c \in configs}

InitWith(payloads) ==
    /\ previous = <<>>
    /\ outcome = NoOutcome
    /\ ribbon = NoRibbon
    /\ payload \in payloads
    /\ state = initialState(payload)
    /\ pos = 0
    /\ pc = "loop"

At == <<"@">>

CorpCom == <<"c","o","r","p",".","c","o","m">>

PartnerCom == <<"p","a","r","t","n","e","r",".","c","o","m">>

ExternalCom == <<"e","x","t","e","r","n","a","l",".","c","o","m">>

ExampleCom == <<"e","x","a","m","p","l","e",".","c","o","m">>

\* Bob <bob@CORP.com>
BobNamed ==
    <<"B","o","b"," ","<","b","o","b">> \o At
    \o <<"C","O","R","P",".","c","o","m",">">>

BobPlain == <<"b","o","b">> \o At \o CorpCom

ZedExternal == <<"z","e","d">> \o At \o ExternalCom

AmyPartner == <<"a","m","y">> \o At \o PartnerCom

\* a@example.com
AExample == <<"a">> \o At \o ExampleCom

\* user@gmial.com
UserGmial == <<"u","s","e","r">> \o At \o TypoKeys[1]

\* zed@ : no domain
ZedNoDomain == <<"z","e","d">> \o At

(***************************************************************************)
(* Spec: every sequence of at most MaxSteps step names, on a few payloads  *)
(***************************************************************************)
MaxSteps == 2

OrchestratorLists ==
    {[to |-> <<>>, cc |-> <<>>, bcc |-> <<>>],
     [to |-> <<BobNamed, BobPlain, ZedExternal>>, cc |-> <<>>, bcc |-> <<>>],
     [to |-> <<ZedExternal, BobPlain>>, cc |-> <<BobPlain, AmyPartner>>,
      bcc |-> <<ZedNoDomain, BobNamed>>]}

OrchestratorNames ==
    RecognizedSteps \cup {"futureStep", "constructor", "toString", "__proto__"}

OrchestratorConfigs ==
    {[internalDomains |-> <<>>, orgDomain |-> <<>>],
     [internalDomains |-> <<CorpCom>>, orgDomain |-> CorpCom],
     [internalDomains |-> <<PartnerCom, NullValue, CorpCom>>,
      orgDomain |-> <<>>]}

Init ==
    InitWith(Payloads(OrchestratorLists,
                      SeqsUpTo(OrchestratorNames, MaxSteps),
                      OrchestratorConfigs))

Spec == Init /\ [][Next]_vars

(***************************************************************************)
(* The orchestrator                                                        *)
(***************************************************************************)
IsRecognized(name) == name \in RecognizedSteps

\* the types of the actions, in order
ActionTypes(actions) == [i \in 1..Len(actions) |-> actions[i].type]

\* each action starts from the lists the one before it produced, the first
\* from the lists first, and last is the output of the last one
Chained(actions, first, last) ==
    /\ \A i \in 1..Len(actions) :
          actions[i].input = IF i = 1 THEN first ELSE actions[i - 1].output
    /\ last = IF actions = <<>> THEN first
              ELSE actions[Len(actions)].output

PayloadLists == [to |-> payload.to, cc |-> payload.cc, bcc |-> payload.bcc]

\* C1: the recognized steps run in the order enabledSteps lists them: the
\* actions are those of the recognized names among the names processed so
\* far, in that order; the first action starts from the payload lists, each
\* later one from the output of the action before it; the lists of the
\* state, and the lists a normal return hands back, are the output of the
\* last action.
C1_StepsRunInListedOrder ==
    /\ state.isObject =>
          /\ ActionTypes(state.actions)
                = SelectSeq(SubSeq(Steps, 1, pos), IsRecognized)
          /\ Chained(state.actions, PayloadLists, Lists(state))
    /\ pc = "returned" =>
          /\ pos = Len(Steps)
          /\ outcome.actions = state.actions
          /\ Chained(outcome.actions, PayloadLists, outcome.result)

\* a run of two different steps returned, and the first one changed the lists
C1_Witness ==
    /\ pc = "returned"
    /\ Len(outcome.actions) = 2
    /\ outcome.actions[1].type # outcome.actions[2].type
    /\ outcome.actions[1].output # outcome.actions[1].input
    /\ outcome.actions[2].output # outcome.actions[2].input

\* stepName names a step function and that function raises on st
Raises(stepName, st) ==
    /\ stepMap(stepName) # "undefined"
    /\ stepThrows(stepMap(stepName), st)

\* C2: when a step raises, the run ends at once with an error that names
\* that step and the state is left as it was; after the error nothing more
\* happens: no later step runs and no result is returned.
C2_FailureAbortsPipeline ==
    [][/\ (pc = "loop" /\ pos < Len(Steps) /\ Raises(Steps[pos + 1], state))
          => /\ pc' = "thrown"
             /\ outcome' = StepError(Steps[pos + 1])
             /\ state' = state
             /\ pos' = pos
       /\ pc # "thrown"]_vars

\* a recognized step raised on the recipients, with a recognized step still
\* to come, and no action is recorded
C2_Witness ==
    /\ pc = "thrown"
    /\ outcome.name = "Error"
    /\ outcome.step \in RecognizedSteps
    /\ state.isObject
    /\ pos + 1 < Len(Steps)
    /\ Steps[pos + 2] \in RecognizedSteps
    /\ state.actions = <<>>

\* C3: a name that is not one of the six recognized ones is skipped
\* silently: the state (actions and lists) stays as it is, nothing is
\* raised, and the loop goes on with the next name.
C3_UnknownNameSkipped ==
    [][(pc = "loop" /\ pos < Len(Steps) /\ ~IsRecognized(Steps[pos + 1]))
          => /\ state' = state
             /\ pc' = "loop"
             /\ pos' = pos + 1
             /\ outcome' = outcome]_vars

(***************************************************************************)
(* SpecRerun: processRecipients called again with the same payload         *)
(***************************************************************************)
MaxRuns == 2

\* the call has ended; the caller keeps what it produced and calls again
Rerun ==
    /\ pc \in {"returned", "thrown"}
    /\ Len(previous) + 1 < MaxRuns
    /\ previous' = Append(previous, outcome)
    /\ state' = initialState(payload)
    /\ pos' = 0
    /\ pc' = "loop"
    /\ outcome' = NoOutcome
    /\ UNCHANGED <<payload, ribbon>>

NextRerun == LoopIteration \/ Return \/ Rerun

SpecRerun == Init /\ [][NextRerun]_vars

MaxDedupeEntries == 3

OfficeBobNamed ==
    [displayName |-> <<"B","o","b">>,
     emailAddress |-> <<"b","o","b">> \o At \o <<"C","O","R","P",".","c","o","m">>]

OfficeBob == [displayName |-> <<>>, emailAddress |-> BobPlain]

OfficeZed == [displayName |-> <<>>, emailAddress |-> ZedExternal]

OfficeBlank == [displayName |-> <<>>, emailAddress |-> NullValue]

DedupePool == {OfficeBobNamed, OfficeBob, OfficeZed, OfficeBlank}

\* Dedupe, and Dedupe again on what it produced
DedupeSteps == {<<"dedupe", "dedupe">>}

\* the payload quickClean builds from the recipients it read
quickCleanPayload(recipients, enabledStepsInOrder) ==
    [to  |-> recipientStrings(recipients.to),
     cc  |-> recipientStrings(recipients.cc),
     bcc |-> recipientStrings(recipients.bcc),
     userSettings |-> [enabledSteps    |-> enabledStepsInOrder,
                       internalDomains |-> <<>>,
                       orgDomain       |-> <<>>]]

InitDedupe ==
    /\ previous = <<>>
    /\ outcome = NoOutcome
    /\ \E r \in ListTriples(DedupePool, MaxDedupeEntries) :
          /\ ribbon = [phase |-> "read", recipients |-> r]
          /\ \E e \in DedupeSteps : payload = quickCleanPayload(r, e)
    /\ state = initialState(payload)
    /\ pos = 0
    /\ pc = "loop"

NextDedupe == LoopIteration \/ Return \/ FallbackDedupe

SpecDedupe == InitDedupe /\ [][NextDedupe]_vars

FieldNames == <<"to", "cc", "bcc">>

\* the emails of the entries of a list
EmailsOf(list, email(_)) == <<>> \o [i \in 1..Len(list) |-> email(list[i])]

\* the emails of the entries of the three lists
EmailLists(lists, email(_)) ==
    [to  |-> EmailsOf(lists.to, email),
     cc  |-> EmailsOf(lists.cc, email),
     bcc |-> EmailsOf(lists.bcc, email)]

\* the places <<field, index>> of the three lists
Places(lists) ==
    {p \in (1..3) \X (1..TotalLen(lists)) : p[2] <= Len(lists[FieldNames[p[1]]])}

EntryAt(lists, p) == lists[FieldNames[p[1]]][p[2]]

\* the first place in the highest-priority field
FirstPlace(places) ==
    CHOOSE p \in places :
        \A q \in places : p[1] < q[1] \/ (p[1] = q[1] /\ p[2] <= q[2])

\* every email of input is the email of one entry of output, in the field
\* of the first place of that email in input, and it is the entry there
OnePerEmail(input, output, email(_)) ==
    LET inE  == EmailLists(input, email)
        outE == EmailLists(output, email)
    IN  \A p \in Places(input) :
            LET kept == {k \in Places(output) : EntryAt(outE, k) = EntryAt(inE, p)}
                from == FirstPlace({q \in Places(input) :
                                       EntryAt(inE, q) = EntryAt(inE, p)})
            IN  /\ Cardinality(kept) = 1
                /\ \A k \in kept : /\ k[1] = from[1]
                                   /\ EntryAt(output, k) = EntryAt(input, from)

DedupeActions ==
    IF state.isObject
    THEN {i \in 1..Len(state.actions) : state.actions[i].type = "dedupe"}
    ELSE {}

\* C5: after Dedupe, in the step and in the fallback of the ribbon command
\* alike, every lower-cased email of the input is the email of exactly one
\* remaining entry, and that entry is the first occurrence in the
\* highest-priority field (to, then cc, then bcc) that contained the email.
C5_OneEntryPerEmail ==
    /\ \A i \in DedupeActions :
          OnePerEmail(state.actions[i].input, state.actions[i].output,
                      NormalizedEmail)
    /\ ribbon.phase = "deduped" =>
          OnePerEmail(ribbon.recipients, ribbon.processed, OfficeEmail)

\* an address written in two ways was in to, cc and bcc and stays only in
\* to after the step
C5_Witness ==
    /\ pos >= 1
    /\ state.actions[1].input = [to |-> <<BobNamed>>, cc |-> <<BobPlain>>,
                                 bcc |-> <<BobNamed>>]
    /\ state.actions[1].output = [to |-> <<BobNamed>>, cc |-> <<>>,
                                  bcc |-> <<>>]

\* C6: Dedupe run on the output of Dedupe returns the same three lists and
\* removes nothing: duplicatesFound is 0 on the second run.
C6_DedupeIdempotent ==
    \A i \in DedupeActions :
        (i > 1 /\ state.actions[i - 1].type = "dedupe") =>
            /\ state.actions[i].input = state.actions[i - 1].output
            /\ state.actions[i].output = state.actions[i - 1].output
            /\ state.actions[i].removed = <<>>
            /\ state.actions[i].duplicatesFound = 0

\* the second of two runs has ended, and the first had removed entries
C6_Witness ==
    /\ state.isObject
    /\ Len(state.actions) = 2
    /\ state.actions[1].duplicatesFound = 2
    /\ state.actions[2].type = "dedupe"

AllEntries(lists) == lists.to \o lists.cc \o lists.bcc

Count(x, seq) == Cardinality({i \in 1..Len(seq) : seq[i] = x})

\* C7: in the Dedupe ActionRecord duplicatesFound is the length of removed
\* and is the total of the input less the total of the output; every input
\* entry is, as often as it occurs in the input, in the output lists or in
\* removed.
C7_RemovedAccounted ==
    \A i \in DedupeActions :
        LET a == state.actions[i]
        IN  /\ a.duplicatesFound = Len(a.removed)
            /\ a.duplicatesFound = TotalLen(a.input) - TotalLen(a.output)
            /\ \A j \in 1..TotalLen(a.input) :
                  Count(AllEntries(a.input)[j], AllEntries(a.input))
                    = Count(AllEntries(a.input)[j],
                            AllEntries(a.output) \o a.removed)
            /\ \A j \in 1..Len(a.removed) :
                  Count(a.removed[j], AllEntries(a.input)) > 0

\* one entry was removed inside a field and one across fields
C7_Witness ==
    /\ pos >= 1
    /\ state.actions[1].input = [to |-> <<BobNamed, BobPlain>>,
                                 cc |-> <<BobPlain>>, bcc |-> <<>>]
    /\ state.actions[1].removed = <<BobPlain, BobPlain>>
    /\ state.actions[1].duplicatesFound = 2

(***************************************************************************)
(* SpecValidate: Validate on lists of entries of each class, and on every  *)
(* short string over a few characters                                      *)
(***************************************************************************)
MaxValidateEntries == 3

MaxEmailLen == 6

ValidatePool == {AExample, BobNamed, UserGmial, ZedNoDomain, NullValue}

EmailChars == {"a", "@", ".", "-"}

SingleEntry(entries) ==
    {[to |-> <<e>>, cc |-> <<>>, bcc |-> <<>>] : e \in entries}

PlainConfig == {[internalDomains |-> <<>>, orgDomain |-> <<>>]}

InitValidate ==
    InitWith(Payloads(ListTriples(ValidatePool, MaxValidateEntries)
                        \cup SingleEntry(SeqsUpTo(EmailChars, MaxEmailLen)),
                      {<<"validate">>}, PlainConfig))

SpecValidate == InitValidate /\ [][Next]_vars

ValidateActions ==
    IF state.isObject
    THEN {i \in 1..Len(state.actions) : state.actions[i].type = "validate"}
    ELSE {}

Passed(result) == result.status \in {"valid", "warning"}

RECURSIVE Retained(_, _)
\* the entries of list whose result, at the same place in results, passed
Retained(list, results) ==
    IF list = <<>> THEN <<>>
    ELSE (IF Passed(Head(results)) THEN <<Head(list)>> ELSE <<>>)
         \o Retained(Tail(list), Tail(results))

NumberWith(results, status) ==
    Cardinality({j \in 1..Len(results) : results[j].status = status})

\* C8: the output lists of Validate are the input entries classified valid
\* or warning, unchanged and in order; an entry classified error is in no
\* output list but has its result in validationResults; errorCount is the
\* input total less the output total, validCount + warningCount is the
\* output total, and the three counts sum to processed.
C8_ValidateFilters ==
    \A i \in ValidateActions :
        LET a  == state.actions[i]
            rs == a.validationResults
            nTo == Len(a.input.to)
            nCc == Len(a.input.cc)
        IN  /\ Len(rs) = TotalLen(a.input)
            /\ \A j \in 1..Len(rs) :
                  /\ rs[j].address = AllEntries(a.input)[j]
                  /\ rs[j].status \in {"valid", "warning", "error"}
                  /\ rs[j].status = "error" =>
                        Count(rs[j].address, AllEntries(a.output)) = 0
            /\ a.output.to = Retained(a.input.to, SubSeq(rs, 1, nTo))
            /\ a.output.cc
                 = Retained(a.input.cc, SubSeq(rs, nTo + 1, nTo + nCc))
            /\ a.output.bcc
                 = Retained(a.input.bcc, SubSeq(rs, nTo + nCc + 1, Len(rs)))
            /\ a.errorCount = NumberWith(rs, "error")
            /\ a.warningCount = NumberWith(rs, "warning")
            /\ a.validCount = NumberWith(rs, "valid")
            /\ a.errorCount = TotalLen(a.input) - TotalLen(a.output)
            /\ a.validCount + a.warningCount = TotalLen(a.output)
            /\ a.validCount + a.warningCount + a.errorCount = a.processed
            /\ a.processed = TotalLen(a.input)

\* an entry classified error was dropped, one classified warning and one
\* classified valid were kept
C8_Witness ==
    /\ pos = 1
    /\ state.actions[1].type = "validate"
    /\ state.actions[1].validCount = 1
    /\ state.actions[1].warningCount = 1
    /\ state.actions[1].errorCount = 1
    /\ state.actions[1].output.cc = <<AExample>>
    /\ state.actions[1].input.to = <<ZedNoDomain, UserGmial>>
    /\ state.actions[1].output.to = <<UserGmial>>

AtPlaces(email) == {k \in 1..Len(email) : email[k] = "@"}

DotPlaces(email) == {k \in 1..Len(email) : email[k] = "."}

\* the email is empty, has no "@" or more than one, has nothing before or
\* after the "@", has no "." after the "@", has two dots in a row, or has
\* fewer than 2 characters after its last "."
Malformed(email) ==
    \/ email = <<>>
    \/ Cardinality(AtPlaces(email)) # 1
    \/ \E k \in AtPlaces(email) :
          \/ k = 1
          \/ k = Len(email)
          \/ \A d \in DotPlaces(email) : d < k
          \/ Len(email) - Max(DotPlaces(email) \cup {0}) < 2
    \/ \E d \in DotPlaces(email) : d + 1 \in DotPlaces(email)

\* C9: Validate classifies an entry error whenever its extracted email is
\* empty, has no "@" or more than one "@", has an empty local or domain
\* part, has a domain without ".", has consecutive dots or has a top-level
\* label of fewer than 2 characters; it classifies a@example.com valid.
C9_MalformedIsError ==
    \A i \in ValidateActions :
        \A j \in 1..Len(state.actions[i].validationResults) :
            LET r == state.actions[i].validationResults[j]
            IN  /\ Malformed(r.email) => r.status = "error"
                /\ r.address = AExample => r.status = "valid"

\* an email with one "@", a local part and a dot in its domain got error
\* for its top-level label alone
C9_Witness ==
    /\ pos = 1
    /\ state.actions[1].type = "validate"
    /\ state.actions[1].input.to = <<<<"a", "@", "a", ".", "a">>>>
    /\ state.actions[1].validationResults[1].status = "error"
    /\ state.actions[1].output.to = <<>>

(***************************************************************************)
(* SpecMalformed: every short step sequence on malformed entries           *)
(***************************************************************************)
MaxMalformedEntries == 2

MaxMalformedSteps == 2

\* zed : no "@"
NoAt == <<"z","e","d">>

\* <> : brackets with nothing inside
BracketOnly == <<"<", ">">>

\* <a@constructor : a bracket that is not closed
Unbalanced ==
    <<"<", "a">> \o At \o <<"c","o","n","s","t","r","u","c","t","o","r">>

MalformedPool == {<<>>, <<" ">>, NoAt, BracketOnly, Unbalanced, NullValue}

\* a configuration of strings only
CorpConfig == {[internalDomains |-> <<CorpCom>>, orgDomain |-> CorpCom]}

InitMalformed ==
    InitWith(Payloads(ListTriples(MalformedPool, MaxMalformedEntries),
                      SeqsUpTo(RecognizedSteps, MaxMalformedSteps),
                      CorpConfig))

SpecMalformed == InitMalformed /\ [][Next]_vars

\* the entries of lists that have no extractable email
WithoutEmail(lists) ==
    {AllEntries(lists)[j] : j \in {k \in 1..TotalLen(lists) :
                                      extractEmail(AllEntries(lists)[k]) = <<>>}}

\* C10: malformed entries are never fatal: no step raises and the call
\* returns normally; a step that runs before Validate leaves every entry
\* without an extractable email in the lists; Validate classifies each
\* malformed entry error.
C10_MalformedNeverFatal ==
    /\ pc # "thrown"
    /\ \A i \in ValidateActions :
          /\ \A j \in 1..(i - 1) :
                \A x \in WithoutEmail(state.actions[j].input) :
                    Count(x, AllEntries(state.actions[j].output))
                      = Count(x, AllEntries(state.actions[j].input))
          /\ \A j \in 1..Len(state.actions[i].validationResults) :
                state.actions[i].validationResults[j].status = "error"

(***************************************************************************)
(* SpecSteps: each step, run once or twice, on every short list            *)
(***************************************************************************)
MaxStepEntries == 2

\* al@mail.corp.com : a subdomain of corp.com
AlSubdomain == <<"a","l">> \o At \o <<"m","a","i","l",".">> \o CorpCom

\* eve@notcorp.com : a domain that only ends in the letters of corp.com
EveLookalike == <<"e","v","e">> \o At \o <<"n","o","t">> \o CorpCom

\* an entry whose display name is white space:  <zed@external.com>
ZedBlankName == <<" ", "<">> \o ZedExternal \o <<">">>

StepPool ==
    {BobNamed, AmyPartner, AlSubdomain, EveLookalike, ZedBlankName,
     ZedNoDomain}

\* a list with an unnamed external entry first, the second configured domain
\* ahead of the first, two entries of one domain, an entry without a domain
\* and one of a misspelt domain
MixedList ==
    <<ZedBlankName, AmyPartner, EveLookalike, ZedNoDomain, BobNamed,
      UserGmial, AlSubdomain>>

\* to is any list of at most n entries, cc the same entries in reverse, and
\* bcc the fixed list
StepLists(pool, n) ==
    {[to |-> l, cc |-> Reverse(l), bcc |-> MixedList] :
        l \in SeqsUpTo(pool, n)}

NoDomains == [internalDomains |-> <<>>, orgDomain |-> <<>>]

CorpFirst == [internalDomains |-> <<CorpCom, PartnerCom>>, orgDomain |-> CorpCom]

PartnerFirst ==
    [internalDomains |-> <<PartnerCom, CorpCom>>, orgDomain |-> PartnerCom]

\* the step sequences, each with the configurations it is run under
StepRuns ==
    {<<<<"sort", "sort">>, NoDomains>>,
     <<<<"prioritizeInternal", "prioritizeInternal">>, CorpFirst>>,
     <<<<"prioritizeInternal", "prioritizeInternal">>, PartnerFirst>>,
     <<<<"prioritizeInternal", "prioritizeInternal", "sort">>, CorpFirst>>,
     <<<<"flagExt", "removeExternal">>, CorpFirst>>,
     <<<<"prioritizeInternal", "removeExternal", "flagExt">>, NoDomains>>,
     <<<<"validate", "validate">>, NoDomains>>,
     <<<<"dedupe">>, NoDomains>>}

InitSteps ==
    InitWith(UNION {Payloads(StepLists(StepPool, MaxStepEntries), {r[1]},
                             {r[2]}) : r \in StepRuns})

SpecSteps == InitSteps /\ [][Next]_vars

\* the number of '@' in an email
AtCount(email) == Cardinality({i \in 1..Len(email) : email[i] = "@"})

\* the lower-cased text after the first '@' of an email
AfterAt(email) ==
    toLowerCase(SubSeq(email,
                       Min({i \in 1..Len(email) : email[i] = "@"}) + 1,
                       Len(email)))

\* the domain of an entry: the lower-cased text after its only '@'
EntryDomain(entry) == AfterAt(extractEmail(entry))

\* a domain equals the configured domain or is a subdomain of it
UnderDomain(domain, configured) ==
    \/ domain = toLowerCase(configured)
    \/ /\ Len(domain) > Len(configured)
       /\ SubSeq(domain, Len(domain) - Len(configured), Len(domain))
            = <<".">> \o toLowerCase(configured)

\* the indices (from 0) of the configured domains a domain is under
UnderAny(domain, domains) ==
    {i \in 0..(Len(domains) - 1) : UnderDomain(domain, domains[i + 1])}

\* the indices (from 0) of the configured domains an entry is under
MatchedIndices(entry, domains) ==
    IF IsString(entry) /\ AtCount(extractEmail(entry)) = 1
    THEN UnderAny(EntryDomain(entry), domains)
    ELSE {}

IsInternalEntry(entry, domains) == MatchedIndices(entry, domains) # {}

SmallestOr(indices, none) == IF indices = {} THEN none ELSE Min(indices)

\* the smallest matched index of an entry, -1 for an external one
MatchedIndex(entry, domains) ==
    SmallestOr(MatchedIndices(entry, domains), -1)

\* the matched indices of the entries of a list, in order
MatchedIndexes(list, domains) ==
    <<>> \o [k \in 1..Len(list) |-> MatchedIndex(list[k], domains)]

\* the entries of a list with the given matched index, in order
WithMatched(list, indexes, matched) ==
    FilterSeq(list, {i \in 1..Len(list) : indexes[i] = matched})

Fields == {"to", "cc", "bcc"}

PrioritizeActions ==
    {i \in 1..Len(state.actions) :
        state.actions[i].type = "prioritizeInternal"}

\* internal entries first and in ascending matched index
Ascending(indexes) ==
    \A i, j \in 1..Len(indexes) :
        i < j /\ indexes[j] >= 0
            => indexes[i] >= 0 /\ indexes[i] <= indexes[j]

InternalFirst(list, domains) == Ascending(MatchedIndexes(list, domains))

\* the entries of each matched index (-1: the external ones) are the input's,
\* in input order
SameWithinIndex(input, output, inIndexes, outIndexes, domains) ==
    \A m \in -1..(Len(domains) - 1) :
        WithMatched(output, outIndexes, m) = WithMatched(input, inIndexes, m)

KeepsInputOrder(input, output, domains) ==
    SameWithinIndex(input, output, MatchedIndexes(input, domains),
                    MatchedIndexes(output, domains), domains)

\* the configuration the pipeline was called with
ConfiguredDomains == payload.userSettings.internalDomains

Alphabetical == SeqIncludes(Steps, "sort")

RemoveActions ==
    {i \in 1..Len(state.actions) : state.actions[i].type = "removeExternal"}

\* the entries of a list that are internal (or are not), in order
InternalOnes(list, domains, wanted) ==
    FilterSeq(list, {i \in 1..Len(list) :
                        IsInternalEntry(list[i], domains) = wanted})

FlagActions ==
    {i \in 1..Len(state.actions) : state.actions[i].type = "flagExt"}

ConfiguredOrgDomain == payload.userSettings.orgDomain

DomainSteps == {"prioritizeInternal", "removeExternal", "flagExt"}

\* C13: with an empty internal-domain list RemoveExternal removes nothing and
\* PrioritizeInternal leaves every list in input order; with no organization
\* domain FlagExternal appends an ActionRecord marked skipped; the lists are
\* unchanged and nothing is raised
C13_EmptyConfigurationNoOp ==
    /\ ConfiguredDomains = <<>>
        => /\ \A i \in RemoveActions :
                /\ state.actions[i].output = state.actions[i].input
                /\ state.actions[i].removed
                     = [to |-> <<>>, cc |-> <<>>, bcc |-> <<>>, total |-> 0]
           /\ \A i \in PrioritizeActions :
                state.actions[i].output = state.actions[i].input
    /\ ConfiguredOrgDomain = <<>>
        => \A i \in FlagActions :
              /\ "skipped" \in DOMAIN state.actions[i]
              /\ state.actions[i].skipped
              /\ state.actions[i].output = state.actions[i].input
    /\ ( /\ ConfiguredDomains = <<>>
         /\ ConfiguredOrgDomain = <<>>
         /\ \A k \in 1..Len(Steps) : Steps[k] \in DomainSteps )
        => /\ pc # "thrown"
           /\ Lists(state) = PayloadLists

\* the three steps have run on a list with an entry of corp.com after another
\* entry, under the empty configuration, and the call has returned
C13_Witness ==
    /\ pc = "returned"
    /\ ConfiguredDomains = <<>>
    /\ ConfiguredOrgDomain = <<>>
    /\ payload.to = <<EveLookalike, BobNamed>>
    /\ PrioritizeActions # {}
    /\ RemoveActions # {}
    /\ \E i \in FlagActions : "skipped" \in DOMAIN state.actions[i]

\* the text after the first '@' of an entry's email, as written
WrittenDomain(entry) ==
    IF AtCount(extractEmail(entry)) = 0 THEN <<>>
    ELSE SubSeq(extractEmail(entry),
                Min({i \in 1..Len(extractEmail(entry)) :
                        extractEmail(entry)[i] = "@"}) + 1,
                Len(extractEmail(entry)))

\* the entries of the three lists that are not under the organization domain
OutsideOrg(lists, orgDomain) ==
    InternalOnes(lists.to, <<orgDomain>>, FALSE)
    \o InternalOnes(lists.cc, <<orgDomain>>, FALSE)
    \o InternalOnes(lists.bcc, <<orgDomain>>, FALSE)

SortActions ==
    {i \in 1..Len(state.actions) : state.actions[i].type = "sort"}

\* the key of an entry: its display name when non-empty, its email otherwise,
\* lower-cased
SortKey(entry) ==
    IF extractDisplayName(entry) # <<>>
    THEN toLowerCase(extractDisplayName(entry))
    ELSE toLowerCase(extractEmail(entry))

NonDecreasingByKey(list) ==
    \A k \in 1..(Len(list) - 1) :
        localeCompare(SortKey(list[k]), SortKey(list[k + 1])) <= 0

\* C15: after Sort each list is, independently, in non-decreasing order of the
\* entries' keys compared case-insensitively, the key being the display name
\* when it is non-empty and the email otherwise
C15_SortedByKey ==
    \A i \in SortActions : \A f \in Fields :
        NonDecreasingByKey(state.actions[i].output[f])

\* two lists hold the same entries, each as often
SameEntries(a, b) ==
    /\ Len(a) = Len(b)
    /\ \A k \in 1..Len(a) : Count(a[k], a) = Count(a[k], b)

\* C16: Sort and PrioritizeInternal only reorder: each output list has the
\* entries of its input list, each as often, whatever the internal-domain
\* list and the alphabetical flag
C16_ReorderOnly ==
    \A i \in SortActions \cup PrioritizeActions : \A f \in Fields :
        SameEntries(state.actions[i].input[f], state.actions[i].output[f])

\* PrioritizeInternal and then Sort have both changed the order of bcc, and
\* the to list holds one entry twice
C16_Witness ==
    /\ \E i \in PrioritizeActions :
          state.actions[i].output.bcc # state.actions[i].input.bcc
    /\ \E i \in SortActions :
          state.actions[i].output.bcc # state.actions[i].input.bcc
    /\ Len(state.to) = 2
    /\ state.to[1] = state.to[2]

IdempotentSteps == {"sort", "validate", "prioritizeInternal"}

\* the places of the ActionRecords of a step that ran right after itself
Repeated ==
    {i \in 2..Len(state.actions) :
        /\ state.actions[i].type \in IdempotentSteps
        /\ state.actions[i - 1].type = state.actions[i].type}

\* C17: Sort, Validate and PrioritizeInternal are idempotent: run again on
\* their own output under the same configuration, each returns the three
\* lists it was given
C17_Idempotent ==
    \A i \in Repeated :
        /\ state.actions[i].input = state.actions[i - 1].output
        /\ state.actions[i].output = state.actions[i].input

\* a step has run twice, and its first run changed the to list and one more
C17_Witness ==
    \E i \in Repeated :
        /\ state.actions[i - 1].output.to # state.actions[i - 1].input.to
        /\ \/ state.actions[i - 1].output.cc # state.actions[i - 1].input.cc
           \/ state.actions[i - 1].output.bcc # state.actions[i - 1].input.bcc

OrderKeepingSteps == {"dedupe", "validate", "removeExternal", "flagExt"}

OrderKeepingActions ==
    {i \in 1..Len(state.actions) :
        state.actions[i].type \in OrderKeepingSteps}

RECURSIVE IsSubsequence(_, _)
\* sub is seq with some entries left out
IsSubsequence(sub, seq) ==
    IF sub = <<>> THEN TRUE
    ELSE IF seq = <<>> THEN FALSE
    ELSE IF Head(sub) = Head(seq) THEN IsSubsequence(Tail(sub), Tail(seq))
    ELSE IsSubsequence(sub, Tail(seq))

\* C18: Dedupe, Validate, RemoveExternal and FlagExternal keep the relative
\* order of the entries they retain: each output list is the input list with
\* some entries left out
C18_OrderPreserved ==
    \A i \in OrderKeepingActions : \A f \in Fields :
        IsSubsequence(state.actions[i].output[f], state.actions[i].input[f])

\* a step has dropped entries of bcc and retained at least two, different ones
C18_Witness ==
    \E i \in OrderKeepingActions :
        /\ Len(state.actions[i].output.bcc) < Len(state.actions[i].input.bcc)
        /\ Len(state.actions[i].output.bcc) >= 2
        /\ state.actions[i].output.bcc[1] # state.actions[i].output.bcc[2]

(***************************************************************************)
(* SpecMatch: the domain matcher on one email and one domain list          *)
(***************************************************************************)
MaxCandidates == 2

UserAt == <<"u","s","e","r">> \o At

MailCorpCom == <<"m","a","i","l",".">> \o CorpCom

MatchEmails ==
    {UserAt \o MailCorpCom,                       \* user@mail.corp.com
     UserAt \o <<"n","o","t">> \o CorpCom,        \* user@notcorp.com
     UserAt \o <<"C","O","R","P",".","c","o","m">>,
     AmyPartner,
     ZedNoDomain,                                 \* zed@
     <<"z","e","d">>,
     UserAt \o CorpCom \o At \o ExternalCom,      \* user@corp.com@external.com
     UserAt \o <<"c","o","r","p",".">>,           \* user@corp.
     <<>>}

CandidatePool ==
    {CorpCom, MailCorpCom, <<"P","a","r","t","n","e","r",".","C","O","M">>,
     <<>>, <<" ">>}

MatchInputs ==
    {[email |-> e, internalDomains |-> l] :
        e \in MatchEmails, l \in SeqsUpTo(CandidatePool, MaxCandidates)}

InitMatch ==
    /\ previous = <<>>
    /\ outcome = NoOutcome
    /\ ribbon = NoRibbon
    /\ payload \in MatchInputs
    /\ state = <<>>
    /\ pos = 0
    /\ pc = "loop"

\* one call of each matcher on the email and the list
MatchDomain ==
    /\ pc = "loop"
    /\ pc' = "returned"
    /\ outcome' =
          [library  |-> getDomainIndex(payload.email, payload.internalDomains),
           taskpane |-> taskpaneGetDomainIndex(payload.email,
                                               payload.internalDomains),
           internal |-> isInternalDomain(payload.email,
                                         payload.internalDomains)]
    /\ UNCHANGED <<payload, state, pos, previous, ribbon>>

NextMatch == MatchDomain

SpecMatch == InitMatch /\ [][NextMatch]_vars

\* a candidate without text
IsBlank(candidate) == trim(candidate) = <<>>

\* the candidates are written as the matcher compares them: not blank and
\* without white space around them
PlainCandidates(domains) ==
    \A i \in 1..Len(domains) :
        ~IsBlank(domains[i]) /\ trim(domains[i]) = domains[i]

C20_NotFoundAndBlanksSkipped ==
    pc = "returned"
        => /\ ( \/ AtCount(payload.email) # 1
                \/ payload.internalDomains = <<>> )
               => outcome.library = -1 /\ ~outcome.internal
           /\ outcome.library >= 0
               => ~IsBlank(payload.internalDomains[outcome.library + 1])
           /\ ( \A i \in 1..Len(payload.internalDomains) :
                   IsBlank(payload.internalDomains[i]) )
               => ~outcome.internal

\* the task pane's copy of the matcher on the same inputs
TaskpaneNotFoundAndBlanksSkipped ==
    pc = "returned"
        => /\ ( \/ AtCount(payload.email) # 1
                \/ payload.internalDomains = <<>> )
               => outcome.taskpane = -1
           /\ outcome.taskpane >= 0
               => ~IsBlank(payload.internalDomains[outcome.taskpane + 1])

(***************************************************************************)
(* SpecTypo: the typo detector and validateRecipient on one address        *)
(***************************************************************************)
MaxTypoLocalLen == 2

GmialUpper == <<"G","M","I","A","L",".","C","O","M">>

GmaillCom == <<"g","m","a","i","l","l",".","c","o","m">>

\* local parts: every short one, a usual one, and two that spell a domain
TypoLocals ==
    (SeqsUpTo({"a", "."}, MaxTypoLocalLen) \ {<<>>})
    \cup {<<"u","s","e","r">>, TypoKeys[1], GmialUpper}

\* domains: the keys of the typo table, one in capitals, the common domains,
\* a near miss of one and two that are neither
TypoDomains ==
    {TypoKeys[i] : i \in 1..Len(TypoKeys)}
    \cup {commonDomains[i] : i \in 1..Len(commonDomains)}
    \cup {GmialUpper, GmaillCom, CorpCom, ExampleCom}

TypoInputs ==
    {[email |-> l \o At \o d] : l \in TypoLocals, d \in TypoDomains}

InitTypo ==
    /\ previous = <<>>
    /\ outcome = NoOutcome
    /\ ribbon = NoRibbon
    /\ payload \in TypoInputs
    /\ state = <<>>
    /\ pos = 0
    /\ pc = "loop"

\* one call of checkForTypos and one of validateRecipient on the address
CheckTypo ==
    /\ pc = "loop"
    /\ pc' = "returned"
    /\ outcome' = [typo   |-> checkForTypos(payload.email),
                   result |-> validateRecipient(payload.email)]
    /\ UNCHANGED <<payload, state, pos, previous, ribbon>>

NextTypo == CheckTypo

SpecTypo == InitTypo /\ [][NextTypo]_vars

\* the text before the first '@' of an email, as written
LocalPart(email) ==
    SubSeq(email, 1, Min({i \in 1..Len(email) : email[i] = "@"}) - 1)

TypoKeyPlaces(domain) == {i \in 1..Len(TypoKeys) : TypoKeys[i] = domain}

\* C21: for an address whose domain is, whatever its letter case, a key of the
\* typo table, the detector returns hasTypo with the suggestion made of the
\* address's own local part, '@' and the domain the table maps the key to
C21_TypoTableSuggestion ==
    ( /\ pc = "returned"
      /\ TypoKeyPlaces(AfterAt(payload.email)) # {} )
        => /\ outcome.typo.hasTypo
           /\ \A i \in TypoKeyPlaces(AfterAt(payload.email)) :
                 outcome.typo.suggestion
                   = LocalPart(payload.email) \o At \o TypoValues[i]

IsCommonDomain(domain) ==
    \E i \in 1..Len(commonDomains) : commonDomains[i] = domain

\* C30: an address whose domain is exactly one of the common domains gets no
\* typo hit and is classified valid, and the detector never reports a typo
\* with a suggestion that is the address it was given
C30_NoHitOnCommonDomain ==
    pc = "returned"
        => /\ IsCommonDomain(split(payload.email, "@")[2])
               => /\ ~outcome.typo.hasTypo
                  /\ outcome.result.status # "error"
                       => outcome.result.status = "valid"
           /\ outcome.typo.hasTypo
               => outcome.typo.suggestion # payload.email

(***************************************************************************)
(* SpecParse: the address parser on one recipient string                   *)
(***************************************************************************)
MaxParseLen == 4

ParseChars == {"a", " ", "<", ">"}

ParseInputs ==
    {[recipient |-> r] :
        r \in SeqsUpTo(ParseChars, MaxParseLen)
              \cup {BobNamed, BobPlain, ZedBlankName}}

InitParse ==
    /\ previous = <<>>
    /\ outcome = NoOutcome
    /\ ribbon = NoRibbon
    /\ payload \in ParseInputs
    /\ state = <<>>
    /\ pos = 0
    /\ pc = "loop"

\* one call of each of the two functions of the parser
Parse ==
    /\ pc = "loop"
    /\ pc' = "returned"
    /\ outcome' = [displayName |-> extractDisplayName(payload.recipient),
                   email       |-> extractEmail(payload.recipient)]
    /\ UNCHANGED <<payload, state, pos, previous, ribbon>>

NextParse == Parse

SpecParse == InitParse /\ [][NextParse]_vars

\* the places of the bracket that opens the content of a string of the form
\* prefix <content>: after a prefix, before content, the string ending in ">"
OpeningBrackets(s) ==
    IF Len(s) < 4 \/ s[Len(s)] # ">" THEN {}
    ELSE {j \in 2..(Len(s) - 2) : s[j] = "<"}

\* C22: for a string of the form prefix <content> the parser returns the
\* trimmed prefix as display name and the trimmed bracket content as email,
\* and for any other string an empty display name and the whole trimmed
\* string as email
C22_ParserContract ==
    pc = "returned"
        => IF OpeningBrackets(payload.recipient) # {}
           THEN /\ outcome.displayName
                     = trim(SubSeq(payload.recipient, 1,
                                   Min(OpeningBrackets(payload.recipient)) - 1))
                /\ outcome.email
                     = trim(SubSeq(payload.recipient,
                                   Min(OpeningBrackets(payload.recipient)) + 1,
                                   Len(payload.recipient) - 1))
           ELSE /\ outcome.displayName = <<>>
                /\ outcome.email = trim(payload.recipient)

(***************************************************************************)
(* SpecAlias: processRecipients on arrays with identity.  The heap holds   *)
(* every array of the call at its address; state.to, state.cc, state.bcc   *)
(* and the inputs and outputs of the ActionRecords are addresses.          *)
(***************************************************************************)
MaxAliasSteps == 2

\* the arrays the caller hands over, at addresses 1 to 5
payloadHeap(p) ==
    <<p.to, p.cc, p.bcc, p.userSettings.enabledSteps,
      p.userSettings.internalDomains>>

\* let state = {to: payload.to || [], ...}: the lists of the state are the
\* arrays of the payload themselves
aliasedState(p) ==
    [heap            |-> payloadHeap(p),
     to              |-> 1,
     cc              |-> 2,
     bcc             |-> 3,
     enabledSteps    |-> 4,
     internalDomains |-> 5,
     orgDomain       |-> p.userSettings.orgDomain,
     actions         |-> <<>>,
     records         |-> <<>>]

\* the state as a step function reads it
Dereferenced(st) ==
    [isObject        |-> TRUE,
     to              |-> st.heap[st.to],
     cc              |-> st.heap[st.cc],
     bcc             |-> st.heap[st.bcc],
     enabledSteps    |-> st.heap[st.enabledSteps],
     internalDomains |-> st.heap[st.internalDomains],
     orgDomain       |-> st.orgDomain,
     actions         |-> st.actions]

\* [...a], [...b], [...c]: three new arrays
spread(heap, a, b, c) == heap \o <<heap[a], heap[b], heap[c]>>

\* recipients.sort(...) reorders the array it is called on and returns it
sortInPlace(heap, targets) ==
    <<>> \o [i \in 1..Len(heap) |->
                IF i \in {targets[1], targets[2], targets[3]}
                THEN sortAlphabetical(heap[i])
                ELSE heap[i]]

\* a variant that sorts the lists of the state themselves
sortedArraysShared(st, n) == <<st.to, st.cc, st.bcc>>

\* the arrays sortStep hands to sortAlphabetical: the copies [...state.to],
\* [...state.cc], [...state.bcc], made after the three copies of input
sortedArrays(st, n) == <<n + 4, n + 5, n + 6>>

\* the heap after stepFn(state), the input copies at n + 1 to n + 3;
\* v is the state the step returns, read by value
heapAfter(stepFn, st, v, n) ==
    IF stepFn = "sort"
    THEN sortInPlace(spread(spread(st.heap, st.to, st.cc, st.bcc),
                            st.to, st.cc, st.bcc),
                     sortedArrays(st, n))
    ELSE IF stepFn = "flagExt"
    THEN spread(st.heap, st.to, st.cc, st.bcc)
    ELSE spread(st.heap, st.to, st.cc, st.bcc) \o <<v.to, v.cc, v.bcc>>

\* the arrays the returned state and action.output refer to: flagExt hands
\* on state.to, state.cc, state.bcc; the other steps hand on arrays they made
outputArrays(stepFn, st, n) ==
    IF stepFn = "sort" THEN sortedArrays(st, n)
    ELSE IF stepFn = "flagExt" THEN <<st.to, st.cc, st.bcc>>
    ELSE <<n + 4, n + 5, n + 6>>

aliasedStep(stepFn, st, v, n, out) ==
    [st EXCEPT !.heap    = heapAfter(stepFn, st, v, n),
               !.to      = out[1],
               !.cc      = out[2],
               !.bcc     = out[3],
               !.actions = v.actions,
               !.records = Append(st.records,
                                  [input  |-> <<n + 1, n + 2, n + 3>>,
                                   output |-> out])]

\* one pass of the loop body on the heap
aliasedLoopBody(st, stepName) ==
    IF stepMap(stepName) \notin RecognizedSteps
    THEN [threw |-> FALSE, state |-> st]
    ELSE IF stepThrows(stepMap(stepName), Dereferenced(st))
    THEN [threw |-> TRUE, error |-> StepError(stepName)]
    ELSE [threw |-> FALSE,
          state |-> aliasedStep(stepMap(stepName), st,
                                stepValue(stepMap(stepName), Dereferenced(st)),
                                Len(st.heap),
                                outputArrays(stepMap(stepName), st,
                                             Len(st.heap)))]

AliasNames == RecognizedSteps \cup {"futureStep"}

AliasLists ==
    {[to |-> <<ZedExternal, BobPlain>>, cc |-> <<BobPlain, AmyPartner>>,
      bcc |-> <<ZedNoDomain, BobNamed>>],
     [to |-> <<BobNamed, BobPlain, AExample>>, cc |-> <<>>,
      bcc |-> <<UserGmial, AmyPartner>>]}

AliasConfigs ==
    {[internalDomains |-> <<>>, orgDomain |-> <<>>],
     [internalDomains |-> <<PartnerCom, CorpCom>>, orgDomain |-> CorpCom],
     [internalDomains |-> <<PartnerCom, NullValue, CorpCom>>,
      orgDomain |-> <<>>]}

InitAlias ==
    /\ previous = <<>>
    /\ outcome = NoOutcome
    /\ ribbon = NoRibbon
    /\ payload \in Payloads(AliasLists, SeqsUpTo(AliasNames, MaxAliasSteps),
                            AliasConfigs)
    /\ state = aliasedState(payload)
    /\ pos = 0
    /\ pc = "loop"

AliasIteration ==
    /\ pc = "loop"
    /\ pos < Len(state.heap[state.enabledSteps])
    /\ Advance(aliasedLoopBody(state, state.heap[state.enabledSteps][pos + 1]))
    /\ UNCHANGED <<payload, previous, ribbon>>

AliasReturn ==
    /\ pc = "loop"
    /\ pos = Len(state.heap[state.enabledSteps])
    /\ pc' = "returned"
    /\ outcome' = returnValue(payload, Dereferenced(state))
    /\ UNCHANGED <<payload, state, pos, previous, ribbon>>

NextAlias == AliasIteration \/ AliasReturn

SpecAlias == InitAlias /\ [][NextAlias]_vars

\* C23: processRecipients never mutates its inputs.  At every point of a
\* run the payload's to, cc and bcc arrays and the arrays of its settings
\* hold the entries they held when the call began, in the same order, and
\* the input lists of every ActionRecord hold what they held when the
\* record was made.
C23_InputsNotMutated ==
    /\ state.heap[1] = payload.to
    /\ state.heap[2] = payload.cc
    /\ state.heap[3] = payload.bcc
    /\ state.heap[4] = payload.userSettings.enabledSteps
    /\ state.heap[5] = payload.userSettings.internalDomains
    /\ state.orgDomain = payload.userSettings.orgDomain
    /\ Len(state.records) = Len(state.actions)
    /\ \A i \in 1..Len(state.records) :
          /\ state.heap[state.records[i].input[1]] = state.actions[i].input.to
          /\ state.heap[state.records[i].input[2]] = state.actions[i].input.cc
          /\ state.heap[state.records[i].input[3]] = state.actions[i].input.bcc

\* a run of two steps has returned; its first step was sort and reordered
\* the to list, and its second step changed the lists again
C23_Witness ==
    /\ pc = "returned"
    /\ Len(state.records) = 2
    /\ state.actions[1].type = "sort"
    /\ state.actions[1].output.to # payload.to
    /\ state.actions[2].output # state.actions[2].input
    /\ outcome.result.to # payload.to

(***************************************************************************)
(* SpecValidity: the validity tests of the task pane, of the ribbon        *)
(* fallback and of the Validate step, each applied to one address          *)
(***************************************************************************)
MaxValidityLen == 5

\* isValidEmail of the task pane; CONFIG.EMAIL_REGEX is the pattern of
\* emailRegex
isValidEmail(email) ==
    /\ IsString(email)
    /\ email # <<>>
    /\ includes(email, <<"@">>)
    /\ Len(split(email, "@")) = 2
    /\ split(email, "@")[1] # <<>>
    /\ split(email, "@")[2] # <<>>
    /\ includes(split(email, "@")[2], <<".">>)
    /\ ~includes(email, <<".", ".">>)
    /\ emailRegex(email)

\* recipient.emailAddress || ""
emailAddressOrEmpty(recipient) ==
    IF IsString(recipient.emailAddress) THEN recipient.emailAddress ELSE <<>>

\* validateRecipients of the task pane
validateRecipients(recipients) ==
    SelectSeq(recipients, LAMBDA r : isValidEmail(emailAddressOrEmpty(r)))

\* the filter callback of validateAndFilterRecipients in commands.js
ribbonIsValid(recipient) ==
    /\ emailAddressOrEmpty(recipient) # <<>>
    /\ includes(emailAddressOrEmpty(recipient), <<"@">>)
    /\ Len(split(emailAddressOrEmpty(recipient), "@")) = 2
    /\ split(emailAddressOrEmpty(recipient), "@")[1] # <<>>
    /\ split(emailAddressOrEmpty(recipient), "@")[2] # <<>>
    /\ includes(split(emailAddressOrEmpty(recipient), "@")[2], <<".">>)
    /\ ~includes(emailAddressOrEmpty(recipient), <<".", ".">>)
    /\ emailRegex(emailAddressOrEmpty(recipient))

\* validateAndFilterRecipients of commands.js
ribbonValidateAndFilterRecipients(recipients) ==
    SelectSeq(recipients, ribbonIsValid)

ValidityChars == {"a", "@", ".", "-", " "}

ValidityInputs ==
    {[displayName |-> <<>>, emailAddress |-> e] :
        e \in SeqsUpTo(ValidityChars, MaxValidityLen)
              \cup {NullValue, AExample, <<" ">> \o AExample, UserGmial,
                    ZedNoDomain}}

InitValidity ==
    /\ previous = <<>>
    /\ outcome = NoOutcome
    /\ ribbon = NoRibbon
    /\ payload \in ValidityInputs
    /\ state = <<>>
    /\ pos = 0
    /\ pc = "loop"

TestValidity ==
    /\ pc = "loop"
    /\ pc' = "returned"
    /\ outcome' =
          [taskpane |-> validateRecipients(<<payload>>) = <<payload>>,
           ribbon   |-> ribbonValidateAndFilterRecipients(<<payload>>)
                            = <<payload>>,
           format   |-> validateEmailFormat(payload.emailAddress).isValid]
    /\ UNCHANGED <<payload, state, pos, previous, ribbon>>

NextValidity == TestValidity

SpecValidity == InitValidity /\ [][NextValidity]_vars

\* C28: the integration layer applies no validation rules of its own.  The
\* task pane's isValidEmail and the ribbon fallback's
\* validateAndFilterRecipients accept exactly the addresses that
\* validateEmailFormat accepts.
C28_SameValidity ==
    pc = "returned" =>
        /\ outcome.taskpane = outcome.format
        /\ outcome.ribbon = outcome.format

(***************************************************************************)
(* SpecOrders: sort and prioritizeInternal enabled, in either order        *)
(***************************************************************************)
MaxOrderEntries == 2

SortAndPrioritize ==
    {<<"sort", "prioritizeInternal">>, <<"prioritizeInternal", "sort">>}

InitOrders ==
    InitWith(Payloads(StepLists(StepPool \cup {AExample}, MaxOrderEntries),
                      SortAndPrioritize, {CorpFirst, PartnerFirst}))

SpecOrders == InitOrders /\ [][Next]_vars

\* every internal entry is before every external one
InternalBeforeExternal(indexes) ==
    \A i, j \in 1..Len(indexes) :
        i < j /\ indexes[j] >= 0 => indexes[i] >= 0

\* entries with the same matched index (-1: the external ones) are in
\* non-decreasing order of their keys
AlphabeticalWithin(list, indexes) ==
    \A i, j \in 1..Len(list) :
        i < j /\ indexes[i] = indexes[j]
            => localeCompare(SortKey(list[i]), SortKey(list[j])) <= 0

\* C26: with sort and prioritizeInternal both enabled, in whatever order,
\* each list processRecipients returns has every internal entry before every
\* external one, the internal entries of one domain in alphabetical order
\* and the external entries in alphabetical order.
C26_InternalFirstEveryOrder ==
    pc = "returned" /\ SeqIncludes(Steps, "sort")
                    /\ SeqIncludes(Steps, "prioritizeInternal")
        => \A f \in Fields :
              /\ InternalBeforeExternal(
                     MatchedIndexes(outcome.result[f], ConfiguredDomains))
              /\ AlphabeticalWithin(
                     outcome.result[f],
                     MatchedIndexes(outcome.result[f], ConfiguredDomains))

(***************************************************************************)
(* The task pane: its own step functions, on recipients of the host        *)
(* ({displayName, emailAddress})                                           *)
(***************************************************************************)
\* safeConvertRecipients of getRecipientsAsync, one recipient: the string of
\* a recipient, or <<>> for a recipient without an email address, which the
\* filter then leaves out
safeConvertRecipient(r) ==
    IF trim(emailAddressOrEmpty(r)) = <<>> THEN <<>>
    ELSE IF trim(r.displayName) # <<>>
    THEN trim(r.displayName) \o <<" ", "<">> \o trim(emailAddressOrEmpty(r))
         \o <<">">>
    ELSE trim(emailAddressOrEmpty(r))

safeConvertRecipients(recipientList) ==
    SelectSeq(<<>> \o [i \in 1..Len(recipientList) |->
                          safeConvertRecipient(recipientList[i])],
              LAMBDA s : s # <<>>)

\* getCurrentRecipients: the three fields of the message, as strings
getCurrentRecipients(item) ==
    [to  |-> safeConvertRecipients(item.to),
     cc  |-> safeConvertRecipients(item.cc),
     bcc |-> safeConvertRecipients(item.bcc)]

\* the bracket that ends the match of /^(.+?)\s*<(.+)>$/ after a prefix of
\* k characters
BracketAfter(s, k) ==
    Min({j \in BracketStarts(s) :
            j > k /\ \A i \in (k + 1)..(j - 1) : s[i] \in WhiteSpace})

\* convertToOfficeFormat, one string
convertOneToOfficeFormat(r) ==
    IF DisplayPrefixes(r) # {}
    THEN [displayName  |-> trim(SubSeq(r, 1, Min(DisplayPrefixes(r)))),
          emailAddress |->
              trim(SubSeq(r, BracketAfter(r, Min(DisplayPrefixes(r))) + 1,
                          Len(r) - 1))]
    ELSE [displayName |-> <<>>, emailAddress |-> trim(r)]

convertToOfficeFormat(recipients) ==
    <<>> \o [i \in 1..Len(recipients) |->
                convertOneToOfficeFormat(recipients[i])]

convertListsToOfficeFormat(lists) ==
    [to  |-> convertToOfficeFormat(lists.to),
     cc  |-> convertToOfficeFormat(lists.cc),
     bcc |-> convertToOfficeFormat(lists.bcc)]

\* deduplicateRecipients of the task pane: its body is that of
\* deduplicateAllRecipients
deduplicateRecipients(lists) ==
    deduplicateAllRecipients(lists.to, lists.cc, lists.bcc)

\* (displayName || emailAddress || "").toLowerCase()
nameOrEmail(r) ==
    IF r.displayName # <<>> THEN toLowerCase(r.displayName)
    ELSE toLowerCase(emailAddressOrEmpty(r))

RECURSIVE InsertByName(_, _)
\* x put into the sorted list after every entry whose name does not compare
\* greater (Array.prototype.sort is stable)
InsertByName(x, sorted) ==
    IF sorted = <<>> THEN <<x>>
    ELSE IF localeCompare(nameOrEmail(Head(sorted)), nameOrEmail(x)) <= 0
         THEN <<Head(sorted)>> \o InsertByName(x, Tail(sorted))
         ELSE <<x>> \o sorted

RECURSIVE sortRecipients(_)
sortRecipients(recipients) ==
    IF recipients = <<>> THEN <<>>
    ELSE InsertByName(recipients[Len(recipients)],
                      sortRecipients(SubSeq(recipients, 1,
                                            Len(recipients) - 1)))

\* the recipients whose domain index is idx (-1: the external ones), in order
WithDomainIndex(recipients, internalDomains, idx) ==
    SelectSeq(recipients,
              LAMBDA r : taskpaneGetDomainIndex(emailAddressOrEmpty(r),
                                                internalDomains) = idx)

RECURSIVE InternalByIndex(_, _, _, _)
\* internal.sort: by domain index, and within one index by name when
\* sortAlphabetically is set, in input order otherwise
InternalByIndex(recipients, internalDomains, sortAlphabetically, idx) ==
    IF idx >= Len(internalDomains) THEN <<>>
    ELSE (IF sortAlphabetically
          THEN sortRecipients(WithDomainIndex(recipients, internalDomains, idx))
          ELSE WithDomainIndex(recipients, internalDomains, idx))
         \o InternalByIndex(recipients, internalDomains, sortAlphabetically,
                            idx + 1)

prioritizeInternalRecipients(recipients, internalDomains, sortAlphabetically) ==
    IF recipients = <<>> \/ internalDomains = <<>> THEN recipients
    ELSE InternalByIndex(recipients, internalDomains, sortAlphabetically, 0)
         \o (IF sortAlphabetically
             THEN sortRecipients(WithDomainIndex(recipients, internalDomains,
                                                 -1))
             ELSE WithDomainIndex(recipients, internalDomains, -1))

\* removeExternalRecipients(...).filtered; removed is the number left out
removeExternalRecipients(recipients, internalDomains) ==
    IF internalDomains = <<>> THEN recipients
    ELSE SelectSeq(recipients,
                   LAMBDA r : taskpaneGetDomainIndex(emailAddressOrEmpty(r),
                                                     internalDomains) >= 0)

\* getValidInternalDomains
getValidInternalDomains(settings) ==
    SelectSeq(settings.internalDomains,
              LAMBDA d : /\ d # <<>>
                         /\ d # <<"m","y","d","o","m","a","i","n",".","c","o","m">>
                         /\ trim(d) # <<>>)

(***************************************************************************)
(* The task pane and the ribbon command on one message.  In SpecPane the   *)
(* variable payload holds the message as it was opened and the saved       *)
(* settings, state holds the host (the recipient fields of the message,    *)
(* ClearSend.lastRecipientState, the Undo button, the saved invalid        *)
(* addresses), pos counts the handlers that have run and outcome is what   *)
(* the last handler did.  The calls of the host (getAsync, setAsync)       *)
(* succeed.                                                                *)
(***************************************************************************)
MaxPaneCalls == 2

\* ClearSend.lastRecipientState = null
NoSnapshot == [to |-> NullValue, cc |-> NullValue, bcc |-> NullValue]

\* getEnabledSteps: stepOrder, filtered to the steps whose box is checked
getEnabledSteps(settings) ==
    SelectSeq(settings.stepOrder,
              LAMBDA step : SeqIncludes(settings.enabledSteps, step))

\* a function applied to each of the three lists
EachList(f(_), lists) ==
    [to |-> f(lists.to), cc |-> f(lists.cc), bcc |-> f(lists.bcc)]

\* handleClean, step 1 past the abort: validateRecipients on each list
cleanValidated(lists, enabledSteps) ==
    IF SeqIncludes(enabledSteps, "validate")
    THEN EachList(validateRecipients, lists)
    ELSE lists

\* handleClean, step 2
cleanDeduped(lists, enabledSteps) ==
    IF SeqIncludes(enabledSteps, "dedupe")
    THEN deduplicateRecipients(lists)
    ELSE lists

\* handleClean, step 3
cleanInternalOnly(lists, enabledSteps, internalDomains) ==
    IF SeqIncludes(enabledSteps, "removeExternal")
    THEN EachList(LAMBDA l : removeExternalRecipients(l, internalDomains),
                  lists)
    ELSE lists

\* handleClean, steps 4 and 5: prioritizeInternalRecipients, or else
\* sortRecipients
cleanOrdered(lists, enabledSteps, internalDomains) ==
    IF SeqIncludes(enabledSteps, "prioritizeInternal")
    THEN EachList(LAMBDA l : prioritizeInternalRecipients(
                                 l, internalDomains,
                                 SeqIncludes(enabledSteps, "sort")),
                  lists)
    ELSE IF SeqIncludes(enabledSteps, "sort")
    THEN EachList(sortRecipients, lists)
    ELSE lists

\* the names of the blocks of handleClean that run, in the order in which
\* they run
cleanApplied(enabledSteps) ==
    SelectSeq(<<"validate", "dedupe", "removeExternal", "prioritizeInternal",
                "sort">>,
              LAMBDA step :
                  /\ SeqIncludes(enabledSteps, step)
                  /\ step = "sort"
                       => ~SeqIncludes(enabledSteps, "prioritizeInternal"))

\* a variant that looks at the to list only
invalidRecipientsToOnly(lists) ==
    SelectSeq(lists.to, LAMBDA r : ~isValidEmail(emailAddressOrEmpty(r)))

\* the recipients isValidEmail rejects
invalidRecipients(lists) ==
    SelectSeq(lists.to \o lists.cc \o lists.bcc,
              LAMBDA r : ~isValidEmail(emailAddressOrEmpty(r)))

\* the string handleClean saves for an invalid recipient
formattedInvalid(r) ==
    IF r.displayName # <<>> /\ r.displayName # r.emailAddress
    THEN r.displayName \o <<" ", "<">> \o r.emailAddress \o <<">">>
    ELSE r.emailAddress

RECURSIVE savedInvalidAfter(_, _)
\* ClearSend.savedInvalidAddresses after the invalid recipients were added
\* to it, leaving out those already saved
savedInvalidAfter(saved, invalids) ==
    IF invalids = <<>> THEN saved
    ELSE IF \E i \in 1..Len(saved) :
                trim(toLowerCase(saved[i]))
                    = trim(toLowerCase(formattedInvalid(Head(invalids))))
    THEN savedInvalidAfter(saved, Tail(invalids))
    ELSE savedInvalidAfter(Append(saved, formattedInvalid(Head(invalids))),
                           Tail(invalids))

\* the host after saveRecipientState and the saving of the invalid addresses
cleanStarted(host, recipients, settings) ==
    [host EXCEPT
        !.lastRecipientState = recipients,
        !.savedInvalidAddresses =
            IF settings.keepInvalid /\ getEnabledSteps(settings) # <<>>
            THEN savedInvalidAfter(
                     @, invalidRecipients(convertListsToOfficeFormat(recipients)))
            ELSE @]

\* handleClean from updateRecipientsDirectly on: dedupedLists are the lists
\* after step 2, filteredLists after step 3 and processed after steps 4, 5
cleanWritten(host, validated, dedupedLists, filteredLists, processed) ==
    [host EXCEPT
        !.item = processed,
        !.undoDisabled = ~(\/ TotalLen(validated) > TotalLen(dedupedLists)
                           \/ TotalLen(dedupedLists) > TotalLen(filteredLists))]

cleanProcessed(host, office, enabledSteps, internalDomains) ==
    cleanWritten(
        host,
        cleanValidated(office, enabledSteps),
        cleanDeduped(cleanValidated(office, enabledSteps), enabledSteps),
        cleanInternalOnly(
            cleanDeduped(cleanValidated(office, enabledSteps), enabledSteps),
            enabledSteps, internalDomains),
        cleanOrdered(
            cleanInternalOnly(
                cleanDeduped(cleanValidated(office, enabledSteps),
                             enabledSteps),
                enabledSteps, internalDomains),
            enabledSteps, internalDomains))

\* what a handler did: the lists it read, the blocks or steps it ran, in
\* order, whether it wrote the recipient fields, and its message
Done(handler, read, applied, wrote, toast) ==
    [kind |-> "pane", handler |-> handler, read |-> read,
     applied |-> applied, wrote |-> wrote, toast |-> toast]

\* handleClean: the host it leaves and what it did
handleClean(host, recipients, office, settings, enabledSteps) ==
    IF enabledSteps = <<>>
    THEN [host    |-> cleanStarted(host, recipients, settings),
          outcome |-> Done("handleClean", recipients, <<>>, FALSE,
                           "No cleaning steps are enabled")]
    ELSE IF /\ SeqIncludes(enabledSteps, "validate")
            /\ invalidRecipients(office) # <<>>
    THEN [host    |-> cleanStarted(host, recipients, settings),
          outcome |-> Done("handleClean", recipients, <<>>, FALSE,
                           "Processing of addresses disabled")]
    ELSE [host    |-> cleanProcessed(cleanStarted(host, recipients, settings),
                                     office, enabledSteps,
                                     getValidInternalDomains(settings)),
          outcome |-> Done("handleClean", recipients,
                           cleanApplied(enabledSteps), TRUE, "Success")]

\* handleUndo, called by a click on the Undo button
handleUndo(host) ==
    IF host.lastRecipientState = NoSnapshot
    THEN [host    |-> host,
          outcome |-> Done("handleUndo", NoSnapshot, <<>>, FALSE, "")]
    ELSE [host    |-> [host EXCEPT
                          !.item = convertListsToOfficeFormat(
                                       host.lastRecipientState),
                          !.lastRecipientState = NoSnapshot,
                          !.undoDisabled = TRUE],
          outcome |-> Done("handleUndo", host.lastRecipientState, <<>>, TRUE,
                           "Previous lists restored")]

RECURSIVE runSteps(_, _, _)
\* the loop of processRecipients after its first k names, r being what the
\* loop body made of the k-th
runSteps(r, steps, k) ==
    IF r.threw \/ k = Len(steps) THEN r
    ELSE runSteps(loopBody(r.state, steps[k + 1]), steps, k + 1)

\* what processRecipients returns or raises after its loop ended in r
processRecipientsEnd(p, r) ==
    IF r.threw THEN r.error
    ELSE IF r.state.isObject THEN returnValue(p, r.state)
    ELSE ReturnError

\* processRecipients(payload), as one call
processRecipients(p) ==
    processRecipientsEnd(p, runSteps([threw |-> FALSE,
                                      state |-> initialState(p)],
                                     p.userSettings.enabledSteps, 0))

\* callOrchestrator: the payload it builds, handed to processRecipients
callOrchestrator(recipients, enabledSteps, settings) ==
    processRecipients(
        [to  |-> recipients.to,
         cc  |-> recipients.cc,
         bcc |-> recipients.bcc,
         userSettings |-> [enabledSteps    |-> enabledSteps,
                           internalDomains |-> getValidInternalDomains(settings),
                           orgDomain       |-> settings.orgDomain]])

\* result.status, result.error, result.to: a property the object does not
\* have reads as undefined
HasProperty(object, name) == name \in DOMAIN object

\* convertToRecipients of updateRecipients, one trimmed string: a recipient,
\* or NullValue for an entry that is left out
convertToRecipient(r) ==
    IF DisplayPrefixes(r) # {} /\ convertOneToOfficeFormat(r).emailAddress # <<>>
    THEN convertOneToOfficeFormat(r)
    ELSE IF includes(r, <<"@">>) \/ Len(r) > 3
    THEN [displayName |-> <<>>, emailAddress |-> r]
    ELSE NullValue

convertToRecipients(recipients) ==
    SelectSeq(<<>> \o [i \in 1..Len(recipients) |->
                          IF IsString(recipients[i]) /\ trim(recipients[i]) # <<>>
                          THEN convertToRecipient(trim(recipients[i]))
                          ELSE NullValue],
              LAMBDA r : r # NullValue)

\* the types of the ActionRecords of a result, in order
actionTypes(result) ==
    <<>> \o [i \in 1..Len(result.actions) |-> result.actions[i].type]

\* handleSort, handleDedupe, handleValidate from the call of callOrchestrator
\* on: result is what the call returned or raised
singleStepHandled(handler, host, recipients, result) ==
    IF result.kind = "thrown"
    THEN [host    |-> host,
          outcome |-> Done(handler, recipients, <<>>, FALSE,
                           "failed: Processing failed")]
    ELSE IF HasProperty(result, "status") /\ result.status = "success"
    THEN IF HasProperty(result, "to")
         THEN [host    |-> [host EXCEPT
                               !.item = EachList(convertToRecipients, result)],
               outcome |-> Done(handler, recipients, actionTypes(result),
                                TRUE, "success")]
         ELSE [host    |-> host,
               outcome |-> Done(handler, recipients, actionTypes(result),
                                FALSE, "completed but failed to update")]
    ELSE [host    |-> host,
          outcome |-> Done(handler, recipients, actionTypes(result), FALSE,
                           "failed: undefined")]

singleStepHandler(handler, stepName, host, settings) ==
    singleStepHandled(handler, host, getCurrentRecipients(host.item),
                      callOrchestrator(getCurrentRecipients(host.item),
                                       <<stepName>>, settings))

\* quickClean with the library loaded, from the return of processRecipients on
quickCleanProcessed(host, result) ==
    IF result.kind = "thrown"
    THEN [host    |-> host,
          outcome |-> Done("quickClean", host.item, <<>>, FALSE,
                           "Quick clean failed")]
    ELSE [host    |-> [host EXCEPT
                          !.item = convertListsToOfficeFormat(result.result)],
          outcome |-> Done("quickClean", host.item, actionTypes(result), TRUE,
                           "Success")]

\* the else branch of quickClean: validate, if enabled
fallbackValidated(lists, enabledSteps) ==
    IF SeqIncludes(enabledSteps, "validate")
    THEN EachList(ribbonValidateAndFilterRecipients, lists)
    ELSE lists

\* the else branch of quickClean: then dedupe, if enabled
fallbackDeduped(lists, enabledSteps) ==
    IF SeqIncludes(enabledSteps, "dedupe")
    THEN deduplicateAllRecipients(lists.to, lists.cc, lists.bcc)
    ELSE lists

\* the else branch of quickClean: then sort, if enabled
\* (sortRecipientsAlphabetically has the body of sortRecipients)
fallbackSorted(lists, enabledSteps) ==
    IF SeqIncludes(enabledSteps, "sort")
    THEN EachList(sortRecipients, lists)
    ELSE lists

quickCleanFallback(host, enabledSteps) ==
    [host    |-> [host EXCEPT
                     !.item = fallbackSorted(
                                  fallbackDeduped(
                                      fallbackValidated(Lists(host.item),
                                                        enabledSteps),
                                      enabledSteps),
                                  enabledSteps)],
     outcome |-> Done("quickClean", host.item,
                      SelectSeq(<<"validate", "dedupe", "sort">>,
                                LAMBDA step : SeqIncludes(enabledSteps, step)),
                      TRUE, "Success")]

\* quickClean: the library when it is loaded, the fallback otherwise
quickClean(host, settings, loaded) ==
    IF loaded
    THEN quickCleanProcessed(
             host,
             processRecipients(
                 [to  |-> recipientStrings(host.item.to),
                  cc  |-> recipientStrings(host.item.cc),
                  bcc |-> recipientStrings(host.item.bcc),
                  userSettings |->
                      [enabledSteps    |-> getEnabledSteps(settings),
                       internalDomains |-> getValidInternalDomains(settings),
                       orgDomain       |-> settings.orgDomain]]))
    ELSE quickCleanFallback(host, settings.enabledSteps)

\* a handler has run: the host it left and what it did
Handled(r) ==
    /\ state' = r.host
    /\ outcome' = r.outcome
    /\ pos' = pos + 1
    /\ UNCHANGED <<payload, pc, previous, ribbon>>

Settings == payload.userSettings

HandleClean ==
    /\ pc = "idle"
    /\ pos < MaxPaneCalls
    /\ Handled(handleClean(state, getCurrentRecipients(state.item),
                           convertListsToOfficeFormat(
                               getCurrentRecipients(state.item)),
                           Settings, getEnabledSteps(Settings)))

HandleUndo ==
    /\ pc = "idle"
    /\ pos < MaxPaneCalls
    /\ ~state.undoDisabled
    /\ Handled(handleUndo(state))

HandleSort ==
    /\ pc = "idle"
    /\ pos < MaxPaneCalls
    /\ Handled(singleStepHandler("handleSort", "sort", state, Settings))

HandleDedupe ==
    /\ pc = "idle"
    /\ pos < MaxPaneCalls
    /\ Handled(singleStepHandler("handleDedupe", "dedupe", state, Settings))

HandleValidate ==
    /\ pc = "idle"
    /\ pos < MaxPaneCalls
    /\ Handled(singleStepHandler("handleValidate", "validate", state,
                                 Settings))

QuickClean ==
    /\ pc = "idle"
    /\ pos < MaxPaneCalls
    /\ \E loaded \in BOOLEAN : Handled(quickClean(state, Settings, loaded))

NextPane ==
    \/ HandleClean
    \/ HandleUndo
    \/ HandleSort
    \/ HandleDedupe
    \/ HandleValidate
    \/ QuickClean

OfficeAmy == [displayName |-> <<"A","m","y">>, emailAddress |-> AmyPartner]

\* zed@ : no domain
OfficeNoDomain == [displayName |-> <<>>, emailAddress |-> ZedNoDomain]

PaneItems ==
    {[to |-> <<OfficeZed, OfficeBobNamed>>, cc |-> <<OfficeBob>>, bcc |-> <<>>],
     [to |-> <<OfficeBob, OfficeZed>>, cc |-> <<>>, bcc |-> <<OfficeAmy>>],
     [to |-> <<OfficeZed, OfficeBob>>, cc |-> <<OfficeBobNamed>>,
      bcc |-> <<OfficeNoDomain>>],
     [to |-> <<OfficeNoDomain, OfficeBob>>, cc |-> <<>>, bcc |-> <<>>],
     [to |-> <<OfficeZed, OfficeBob, OfficeAmy>>, cc |-> <<>>, bcc |-> <<>>],
     [to |-> <<>>, cc |-> <<>>, bcc |-> <<>>]}

DefaultOrder ==
    <<"sort", "dedupe", "validate", "prioritizeInternal", "removeExternal",
      "keepInvalid">>

PaneOrders == {DefaultOrder, Reverse(DefaultOrder)}

PaneChecked ==
    {{}, {"sort"}, {"dedupe", "sort"}, {"validate", "dedupe"},
     {"sort", "prioritizeInternal"}, {"removeExternal"},
     {"validate", "keepInvalid"}, {"keepInvalid"}}

\* the settings updateSettings saves for an order and a set of checked boxes
PaneSettings ==
    {[stepOrder       |-> order,
      enabledSteps    |-> SelectSeq(order, LAMBDA step : step \in checked),
      keepInvalid     |-> "keepInvalid" \in checked,
      internalDomains |-> <<<<"m","y","d","o","m","a","i","n",".","c","o","m">>,
                            CorpCom>>,
      orgDomain       |-> <<>>] :
        order \in PaneOrders, checked \in PaneChecked}

InitPane ==
    /\ previous = <<>>
    /\ outcome = NoOutcome
    /\ ribbon = NoRibbon
    /\ \E item \in PaneItems, settings \in PaneSettings :
          payload = [to |-> item.to, cc |-> item.cc, bcc |-> item.bcc,
                     userSettings |-> settings]
    /\ \E disabled \in BOOLEAN :
          state = [item                  |-> Lists(payload),
                   lastRecipientState    |-> NoSnapshot,
                   undoDisabled          |-> disabled,
                   savedInvalidAddresses |-> <<>>]
    /\ pos = 0
    /\ pc = "idle"

SpecPane == InitPane /\ [][NextPane]_vars

\* a recipient of one of the three fields fails the task pane's validity test
AnyInvalid(item) ==
    \E f \in Fields : \E i \in 1..Len(item[f]) :
        ~isValidEmail(item[f][i].emailAddress)

ValidateEnabled == SeqIncludes(Settings.enabledSteps, "validate")

ConfiguredSteps ==
    SelectSeq(Settings.stepOrder,
              LAMBDA step : /\ SeqIncludes(Settings.enabledSteps, step)
                            /\ step # "keepInvalid")

\* C25: each of the two clean entry points, handleClean of the task pane and
\* quickClean of the ribbon, when it cleans a message, runs exactly the
\* enabled steps, in the order of stepOrder.
C25_StepsInConfiguredOrder ==
    (/\ outcome.kind = "pane"
     /\ outcome.handler \in {"handleClean", "quickClean"}
     /\ outcome.wrote)
        => outcome.applied = ConfiguredSteps


\* the step is a task-pane clean that wrote the recipient fields and left
\* them different from what they were
CleanChanged ==
    /\ outcome'.kind = "pane"
    /\ outcome'.handler = "handleClean"
    /\ outcome'.wrote
    /\ state'.item # state.item

\* the host after a click on Undo that runs handleUndo
Undone(host) == handleUndo(host).host

\* C27: after a task-pane clean that changed the recipient fields in any way
\* (removal or reordering) the Undo button is enabled; Undo, invoked before
\* any other change, writes back the to/cc/bcc lists that the clean read at
\* its start (reading the fields again gives the same lists) and clears the
\* snapshot, so that a second Undo changes nothing.
C27_UndoRestoresAfterChange ==
    [][CleanChanged
          => /\ ~state'.undoDisabled
             /\ getCurrentRecipients(Undone(state').item) = outcome'.read
             /\ Undone(state').lastRecipientState = NoSnapshot
             /\ Undone(Undone(state')) = Undone(state')]_vars


\* the step each single-step handler hands to callOrchestrator
SingleStep ==
    [handleSort |-> "sort", handleDedupe |-> "dedupe",
     handleValidate |-> "validate"]

\* what callOrchestrator gave the single-step handler that has just run
Orchestrated ==
    callOrchestrator(outcome.read, <<SingleStep[outcome.handler]>>, Settings)

\* C29: when processRecipients returns normally, the single-step handler
\* that called it (handleSort, handleDedupe or handleValidate) takes its
\* success branch and writes the processed to/cc/bcc lists to the recipient
\* fields; a handler that ended in its failure branch had a processing call
\* that failed.
C29_ReturnedResultIsWritten ==
    (/\ outcome.kind = "pane"
     /\ outcome.handler \in DOMAIN SingleStep)
        => /\ Orchestrated.kind = "returned"
               => /\ outcome.wrote
                  /\ outcome.toast = "success"
                  /\ state.item
                         = EachList(convertToRecipients, Orchestrated.result)
           /\ outcome.toast \in {"failed: undefined",
                                 "failed: Processing failed"}
               => Orchestrated.kind # "returned"


(***************************************************************************)
(* Properties of whole step sequences (Spec)                               *)
(***************************************************************************)
\* every entry of list a occurs in list b at least as often as in a
SubMultiset(a, b) == \A k \in 1..Len(a) : Count(a[k], a) <= Count(a[k], b)

\* each of the three lists holds only entries of the payload's list of the
\* same field, none more often than there
WithinPayload(lists) == \A f \in Fields : SubMultiset(lists[f], payload[f])

\* C31: no step adds an entry or moves one between fields: after any sequence
\* of steps each list of the state, and each list a normal return hands back,
\* is a sub-multiset of the payload's list of the same field; no step's
\* output has more entries than its input; and summary.totalRemaining is at
\* most summary.totalProcessed.
C31_NoEntryAddedOrMoved ==
    /\ state.isObject
          => /\ WithinPayload(state)
             /\ \A i \in 1..Len(state.actions) :
                   TotalLen(state.actions[i].output)
                       <= TotalLen(state.actions[i].input)
    /\ outcome.kind = "returned"
          => /\ WithinPayload(outcome.result)
             /\ outcome.summary.totalRemaining <= outcome.summary.totalProcessed

\* a call has returned after two steps that each removed entries, from a
\* payload that holds the same address in all three fields
C31_Witness ==
    /\ outcome.kind = "returned"
    /\ Len(outcome.actions) = 2
    /\ \A i \in 1..2 : TotalLen(outcome.actions[i].output)
                           < TotalLen(outcome.actions[i].input)
    /\ payload.cc # <<>>
    /\ payload.bcc # <<>>
    /\ outcome.summary.totalRemaining > 0


\* a step of the given type is among the actions
HasRun(actions, type) == \E i \in 1..Len(actions) : actions[i].type = type

\* no two entries of the list have the same normalized email
DistinctEmails(entries) ==
    \A i, j \in 1..Len(entries) :
        i # j => NormalizedEmail(entries[i]) # NormalizedEmail(entries[j])

\* the email of every entry of the list passes the format rules
AllWellFormed(entries) ==
    \A i \in 1..Len(entries) :
        validateEmailFormat(extractEmail(entries[i])).isValid

\* every entry of the list is under a configured domain
AllInternal(entries, domains) ==
    \A i \in 1..Len(entries) : IsInternalEntry(entries[i], domains)

\* the postconditions of the filtering steps among the actions hold of the
\* lists
PostconditionsHold(actions, lists) ==
    /\ HasRun(actions, "dedupe") => DistinctEmails(AllEntries(lists))
    /\ HasRun(actions, "validate") => AllWellFormed(AllEntries(lists))
    /\ (HasRun(actions, "removeExternal") /\ ConfiguredDomains # <<>>)
          => AllInternal(AllEntries(lists), ConfiguredDomains)

MaxCommuteEntries == 2

KCom == <<"k",".","c","o","m">>

\* bob@k.com
BobAtK == <<"b","o","b">> \o At \o KCom

\* bob@K.com written with the Kelvin sign
BobAtKelvin == <<"b","o","b">> \o At \o <<KelvinSign>> \o <<".","c","o","m">>

CommutePool ==
    {BobNamed, BobPlain, ZedExternal, ZedNoDomain, BobAtK, BobAtKelvin}

CommuteOrders ==
    {<<"dedupe", "validate">>, <<"dedupe", "removeExternal">>}

CommuteConfigs ==
    {NoDomains, CorpFirst, [internalDomains |-> <<KCom>>, orgDomain |-> <<>>]}

InitCommute ==
    InitWith(Payloads(ListTriples(CommutePool, MaxCommuteEntries),
                      CommuteOrders, CommuteConfigs))

\* the payload with its two steps the other way round
Swapped(p) ==
    [p EXCEPT !.userSettings.enabledSteps = Reverse(@)]

\* processRecipients is called with the payload and with the swapped one
RunBothOrders ==
    /\ pc = "loop"
    /\ pc' = "compared"
    /\ outcome' = [kind     |-> "orders",
                   listed   |-> processRecipients(payload),
                   reversed |-> processRecipients(Swapped(payload))]
    /\ UNCHANGED <<payload, state, pos, previous, ribbon>>

NextCommute == RunBothOrders

SpecCommute == InitCommute /\ [][NextCommute]_vars

\* two calls ended alike: both raised, or both returned the same lists
SameLists(a, b) ==
    /\ a.kind = b.kind
    /\ a.kind = "returned" => a.result = b.result

\* C33: dedupe commutes with the two filtering steps: for any payload the
\* sequences [dedupe, validate] and [validate, dedupe] return the same three
\* lists, and so do [dedupe, removeExternal] and [removeExternal, dedupe]
\* for any internal-domain list.
C33_DedupeCommutes ==
    outcome.kind = "orders" => SameLists(outcome.listed, outcome.reversed)


(***************************************************************************)
(* SpecCommand: quickClean of the ribbon and handleClean of the task pane, *)
(* one asynchronous result of the host at a time.  A getAsync or setAsync  *)
(* call of the host ends in a callback with status Succeeded or Failed; a  *)
(* failed setAsync leaves its field as it was.                             *)
(***************************************************************************)
MaxInvocations == 1

\* settings whose stepOrder holds a name that makes processRecipients raise
RaisingSettings ==
    [stepOrder       |-> <<"sort", "__proto__">>,
     enabledSteps    |-> <<"sort", "__proto__">>,
     keepInvalid     |-> FALSE,
     internalDomains |-> <<>>,
     orgDomain       |-> <<>>]

CommandSettings ==
    {s \in PaneSettings : s.stepOrder = DefaultOrder} \cup {RaisingSettings}

CommandItems ==
    {item \in PaneItems : item.cc # <<>> \/ item.bcc # <<>>}

NoLists == [to |-> <<>>, cc |-> <<>>, bcc |-> <<>>]

\* the locals of a handler that has not started
Idle(entry, loaded) ==
    [phase |-> "command", entry |-> entry, loaded |-> loaded,
     recipients |-> NoLists, processed |-> NoLists, pending |-> {},
     rejected |-> FALSE, after |-> <<>>, results |-> <<>>]

InitCommand ==
    /\ previous = <<>>
    /\ outcome = [kind |-> "command", failed |-> "none"]
    /\ \E item \in CommandItems, settings \in CommandSettings :
          payload = [to |-> item.to, cc |-> item.cc, bcc |-> item.bcc,
                     userSettings |-> settings]
    /\ state = [item                  |-> Lists(payload),
                lastRecipientState    |-> NoSnapshot,
                undoDisabled          |-> TRUE,
                savedInvalidAddresses |-> <<>>,
                invoked               |-> 0,   \* calls of quickClean
                completed             |-> 0,   \* calls of event.completed
                notifications         |-> <<>>]
    /\ \E entry \in {"quickClean", "handleClean"}, loaded \in BOOLEAN :
          ribbon = Idle(entry, loaded)
    /\ pos = 0
    /\ pc = "idle"

\* the field a location of getAllRecipients or updateAllRecipients is at,
\* and the location after its callback reported success
FieldAt ==
    [getTo |-> "to", getCc |-> "cc", getBcc |-> "bcc",
     setTo |-> "to", setCc |-> "cc", setBcc |-> "bcc"]

AfterSuccess ==
    [getTo |-> "getCc", getCc |-> "getBcc", getBcc |-> "process",
     setTo |-> "setCc", setCc |-> "setBcc", setBcc |-> "notify"]

Failed(what) == [kind |-> "command", failed |-> what]

\* lines 31 to 104 of quickClean are a function of the recipients read and
\* the settings: its value on the lists the message holds, tabulated when
\* the command starts (nothing else writes the message while it runs)
processingOf(host, loaded) ==
    [recipients \in {host.item} |->
        quickClean([host EXCEPT !.item = recipients], Settings, loaded)]

\* the ribbon button is clicked: quickClean(event) starts and calls
\* getAllRecipients, which calls item.to.getAsync
InvokeQuickClean ==
    /\ pc = "idle"
    /\ ribbon.entry = "quickClean"
    /\ pos < MaxInvocations
    /\ pos' = pos + 1
    /\ pc' = "getTo"
    /\ state' = [state EXCEPT !.invoked = @ + 1]
    /\ ribbon' = [Idle("quickClean", ribbon.loaded)
                     EXCEPT !.results = processingOf(state, ribbon.loaded)]
    /\ outcome' = Failed("none")
    /\ UNCHANGED <<payload, previous>>

\* the callback of a getAsync of getAllRecipients
GetAsyncCallback ==
    /\ pc \in {"getTo", "getCc", "getBcc"}
    /\ \E succeeded \in BOOLEAN :
          IF succeeded
          THEN /\ ribbon' = [ribbon EXCEPT
                                !.recipients[FieldAt[pc]] =
                                    state.item[FieldAt[pc]]]
               /\ pc' = AfterSuccess[pc]
               /\ UNCHANGED outcome
          ELSE /\ pc' = "catch"
               /\ outcome' = Failed("read")
               /\ UNCHANGED ribbon
    /\ UNCHANGED <<payload, state, pos, previous>>

\* quickClean from the return of getAllRecipients to the call of
\* updateAllRecipients, which calls item.to.setAsync
ProcessRead ==
    /\ pc = "process"
    /\ \E r \in {ribbon.results[ribbon.recipients]} :
          IF r.outcome.wrote
          THEN /\ ribbon' = [ribbon EXCEPT !.processed = r.host.item]
               /\ pc' = "setTo"
               /\ UNCHANGED outcome
          ELSE /\ pc' = "catch"
               /\ outcome' = Failed("process")
               /\ UNCHANGED ribbon
    /\ UNCHANGED <<payload, state, pos, previous>>

\* the callback of a setAsync of updateAllRecipients
SetAsyncCallback ==
    /\ pc \in {"setTo", "setCc", "setBcc"}
    /\ \E succeeded \in BOOLEAN :
          IF succeeded
          THEN /\ state' = [state EXCEPT
                               !.item[FieldAt[pc]] =
                                   ribbon.processed[FieldAt[pc]]]
               /\ pc' = AfterSuccess[pc]
               /\ UNCHANGED outcome
          ELSE /\ pc' = "catch"
               /\ outcome' = Failed("write")
               /\ UNCHANGED state
    /\ UNCHANGED <<payload, ribbon, pos, previous>>

\* the success notification, at the end of the try block
NotifySuccess ==
    /\ pc = "notify"
    /\ state' = [state EXCEPT !.notifications = Append(@, "success")]
    /\ pc' = "complete"
    /\ UNCHANGED <<payload, ribbon, pos, outcome, previous>>

\* a variant whose catch clause returns from quickClean
CatchQuickCleanReturns ==
    /\ pc = "catch"
    /\ state' = [state EXCEPT !.notifications = Append(@, "error")]
    /\ pc' = "idle"
    /\ UNCHANGED <<payload, ribbon, pos, outcome, previous>>

\* the catch clause of quickClean
CatchQuickClean ==
    /\ pc = "catch"
    /\ state' = [state EXCEPT !.notifications = Append(@, "error")]
    /\ pc' = "complete"
    /\ UNCHANGED <<payload, ribbon, pos, outcome, previous>>

\* event.completed(), the last statement of quickClean
Completed ==
    /\ pc = "complete"
    /\ state' = [state EXCEPT !.completed = @ + 1]
    /\ pc' = "idle"
    /\ UNCHANGED <<payload, ribbon, pos, outcome, previous>>

\* handleClean, up to its call of updateRecipientsDirectly
cleanRun(host) ==
    handleClean(host, getCurrentRecipients(host.item),
                convertListsToOfficeFormat(getCurrentRecipients(host.item)),
                Settings, getEnabledSteps(Settings))

\* the Clean button of the task pane is clicked: handleClean runs up to
\* updateRecipientsDirectly, whose Promise.all starts the three setAsync, or
\* ends before it with a message
InvokeHandleClean ==
    /\ pc = "idle"
    /\ ribbon.entry = "handleClean"
    /\ ribbon.pending = {}
    /\ pos < MaxInvocations
    /\ pos' = pos + 1
    /\ \E r \in {cleanRun(state)} :
          IF r.outcome.wrote
          THEN /\ pc' = "writeAll"
               /\ state' = cleanStarted(state,
                                        getCurrentRecipients(state.item),
                                        Settings)
               /\ ribbon' = [ribbon EXCEPT
                                !.processed = r.host.item,
                                !.after = r.host,
                                !.pending = Fields,
                                !.rejected = FALSE]
          ELSE /\ pc' = "idle"
               /\ state' = [r.host EXCEPT
                               !.notifications = Append(@, "warning")]
               /\ UNCHANGED ribbon
    /\ outcome' = Failed("none")
    /\ UNCHANGED <<payload, previous>>

\* the callback of one of the three setAsync of updateRecipientsDirectly.
\* The first failure rejects Promise.all and handleClean shows 'Clean
\* failed'; the last success, when none failed, lets handleClean go on to
\* its success message and updateLastAction.  Callbacks that arrive after
\* the rejection still find their field written or not.
SetDirectCallback ==
    /\ ribbon.pending # {}
    /\ \E f \in ribbon.pending, succeeded \in BOOLEAN :
          /\ ribbon' = [ribbon EXCEPT
                           !.pending = @ \ {f},
                           !.rejected = @ \/ ~succeeded]
          /\ state' =
                [state EXCEPT
                    !.item[f] = IF succeeded THEN ribbon.processed[f] ELSE @,
                    !.undoDisabled =
                        IF succeeded /\ ~ribbon.rejected
                           /\ ribbon.pending = {f}
                        THEN ribbon.after.undoDisabled ELSE @,
                    !.notifications =
                        IF ~succeeded /\ ~ribbon.rejected
                        THEN Append(@, "error")
                        ELSE IF succeeded /\ ~ribbon.rejected
                                /\ ribbon.pending = {f}
                        THEN Append(@, "success")
                        ELSE @]
          /\ outcome' = IF succeeded THEN outcome ELSE Failed("write")
          /\ pc' = IF (~succeeded /\ ~ribbon.rejected)
                      \/ (succeeded /\ ~ribbon.rejected /\ ribbon.pending = {f})
                   THEN "idle" ELSE pc
    /\ UNCHANGED <<payload, pos, previous>>

NextCommand ==
    \/ InvokeQuickClean
    \/ GetAsyncCallback
    \/ ProcessRead
    \/ SetAsyncCallback
    \/ NotifySuccess
    \/ CatchQuickClean
    \/ Completed
    \/ InvokeHandleClean
    \/ SetDirectCallback

SpecCommand == InitCommand /\ [][NextCommand]_vars

\* the message as it was when the handler was invoked
\* (one invocation: the payload's lists)
WriteFailed == outcome.kind = "command" /\ outcome.failed = "write"

\* C34: a clean that reports failure leaves the message as it was: if the
\* write-back of the processed lists fails for any one field, in quickClean
\* of the ribbon or in handleClean of the task pane, none of to, cc and bcc
\* has been changed.
C34_WriteBackAllOrNothing ==
    (WriteFailed /\ pos = 1) => state.item = Lists(payload)


\* the steps of a running quickClean: the host delivers the result of every
\* asynchronous call, and the continuation of an await runs
QuickCleanSteps ==
    \/ GetAsyncCallback
    \/ ProcessRead
    \/ SetAsyncCallback
    \/ NotifySuccess
    \/ CatchQuickClean
    \/ Completed

SpecCommandFair == SpecCommand /\ WF_vars(QuickCleanSteps)

\* event.completed() has been called once for every invocation that has
\* ended and not for the one that is running; an invocation that has ended
\* has shown one notification, the error one if it failed and the success
\* one if not
CompletedOncePerInvocation ==
    ribbon.entry = "quickClean"
        => /\ state.completed
                = IF pc = "idle" THEN state.invoked ELSE state.invoked - 1
           /\ pc = "complete" \/ (pc = "idle" /\ state.invoked > 0)
                 => /\ Len(state.notifications) = state.invoked
                    /\ state.notifications[state.invoked]
                         = IF outcome.failed = "none" THEN "success"
                           ELSE "error"
           /\ pc \notin {"complete", "idle"}
                 => Len(state.notifications) = state.invoked - 1

\* C38: every invocation of quickClean calls event.completed() exactly once,
\* after the clean has succeeded or after any failure to read the
\* recipients, to process them or to write them back; on failure the error
\* notification is shown and the success notification is not.
C38_CompletedExactlyOnce ==
    /\ []CompletedOncePerInvocation
    /\ (state.invoked > state.completed)
           ~> (state.invoked = state.completed)

\* an invocation has ended after the write of cc failed: one call of
\* event.completed(), the error notification, and no success notification
C38_Witness ==
    /\ ribbon.entry = "quickClean"
    /\ pc = "idle"
    /\ state.invoked = 1
    /\ state.completed = 1
    /\ outcome.failed = "write"
    /\ state.item.to = ribbon.processed.to
    /\ state.notifications = <<"error">>

-----------------------------------------------------------------------------
\* The undo snapshot across cleans (SpecUndo): the task pane stays open while
\* the message is being composed, so the sender edits the recipient fields
\* between two clicks on the buttons of the pane.

MaxEdits == 1

\* the addresses the sender types into the To field between two cleans
TypedRecipients == {OfficeNoDomain, OfficeBob}

\* the sender adds a recipient to the To field in the compose window; the
\* pane's state other than the message is as it was
RecipientsEdited ==
    /\ pc = "idle"
    /\ Len(previous) < MaxEdits
    /\ \E typed \in TypedRecipients :
          state' = [state EXCEPT !.item.to = Append(@, typed)]
    /\ previous' = Append(previous, state.item)
    /\ UNCHANGED <<payload, pos, pc, outcome, ribbon>>

NextUndo ==
    \/ NextPane
    \/ RecipientsEdited

SpecUndo == InitPane /\ [][NextUndo]_vars

\* the step is a run of handleClean that returned before writing: no step
\* is enabled, or validate is and an invalid address is present
CleanAborted ==
    /\ pos' = pos + 1
    /\ outcome'.kind = "pane"
    /\ outcome'.handler = "handleClean"
    /\ ~outcome'.wrote

\* C35: a task-pane clean that aborts (invalid addresses present, or no step
\* enabled) leaves the undo snapshot unchanged, so that a later Undo still
\* restores the lists saved by the last clean that changed the recipients.
C35_AbortKeepsSnapshot ==
    [][CleanAborted
          => /\ state'.lastRecipientState = state.lastRecipientState
             /\ Undone(state').item = Undone(state).item]_vars

-----------------------------------------------------------------------------
\* The recipient display of the task pane (SpecDisplay): change events or
\* polling, the debounce timer of onRecipientsChanged, the calls of
\* updateRecipientDisplay made by the handlers, and the host's answers to the
\* three getAsync of getCurrentRecipients.

MaxChanges == 1
MaxRefreshCalls == 1

\* the messages the sender moves between while the pane is open
DisplayItems ==
    {[to |-> <<OfficeBob>>, cc |-> <<>>, bcc |-> <<>>],
     [to |-> <<OfficeBob, OfficeZed>>, cc |-> <<>>, bcc |-> <<>>],
     [to |-> <<OfficeZed, OfficeBob>>, cc |-> <<>>, bcc |-> <<>>],
     [to |-> <<OfficeBob>>, cc |-> <<OfficeZed>>, bcc |-> <<>>]}

\* the readings of a run that has started: the fields still pending hold
\* nothing
Unread == [to |-> <<>>, cc |-> <<>>, bcc |-> <<>>]

\* JSON.stringify({to: to.sort(), cc: cc.sort(), bcc: bcc.sort()}) of two
\* readings are the same string: each field holds the same strings as often
SameHash(a, b) ==
    \A f \in Fields : SubMultiset(a[f], b[f]) /\ SubMultiset(b[f], a[f])

\* updateRecipientDisplay without the test of the lock
updateRecipientDisplayUnlocked(host) ==
    [host EXCEPT !.isUpdatingDisplay = TRUE,
                 !.runs = Append(@, [pending |-> Fields, read |-> Unread])]

\* updateRecipientDisplay up to its await: return if the lock is set, else
\* set it and start the three getAsync of getCurrentRecipients
updateRecipientDisplay(host) ==
    IF host.isUpdatingDisplay
    THEN host
    ELSE [host EXCEPT !.isUpdatingDisplay = TRUE,
                      !.runs = Append(@, [pending |-> Fields, read |-> Unread])]

\* onRecipientsChanged: the pending timer is cleared and a new one is set
onRecipientsChanged(host) ==
    [host EXCEPT !.recipientChangeTimeout = "armed"]

\* the k-th element of a sequence taken out
WithoutAt(seq, k) ==
    <<>> \o [i \in 1..(Len(seq) - 1) |-> IF i < k THEN seq[i] ELSE seq[i + 1]]

\* the message with its fields set to item: readable is what the getAsync of
\* the three fields answer from now on, and hashChanged whether
\* checkForChanges finds a hash other than the one it kept
WithItem(host, item) ==
    [host EXCEPT
        !.item = item,
        !.readable = getCurrentRecipients(item),
        !.hashChanged = ~SameHash(getCurrentRecipients(item),
                                  host.lastRecipientHash)]

\* what a step of the display did
Displayed(did) == [kind |-> "display", did |-> did]

InitDisplay ==
    /\ previous = <<>>
    /\ outcome = NoOutcome
    /\ ribbon = NoRibbon
    /\ pos = 0
    /\ pc = "idle"
    /\ \E item \in DisplayItems, polling \in BOOLEAN :
          /\ payload = [to |-> item.to, cc |-> item.cc, bcc |-> item.bcc,
                        userSettings |-> [polling |-> polling]]
          /\ state = [item                   |-> item,
                      readable               |-> getCurrentRecipients(item),
                      hashChanged            |-> FALSE,
                      displayed              |-> getCurrentRecipients(item),
                      isUpdatingDisplay      |-> FALSE,
                      runs                   |-> <<>>,
                      recipientChangeTimeout |-> "null",
                      lastRecipientHash      |-> getCurrentRecipients(item),
                      events                 |-> 0,
                      calls                  |-> 0,
                      failed                 |-> FALSE]

\* the sender changes the recipient fields; with event listeners the host
\* owes a RecipientsChanged event
RecipientsChange ==
    /\ pos < MaxChanges
    /\ \E item \in DisplayItems \ {state.item} :
          state' = [WithItem(state, item) EXCEPT
                       !.events = IF Settings.polling THEN @ ELSE @ + 1]
    /\ pos' = pos + 1
    /\ outcome' = Displayed("changed")
    /\ UNCHANGED <<payload, pc, previous, ribbon>>

\* the host delivers a RecipientsChanged event to onRecipientsChanged
EventDelivered ==
    /\ state.events > 0
    /\ state' = [onRecipientsChanged(state) EXCEPT !.events = @ - 1]
    /\ outcome' = Displayed("event")
    /\ UNCHANGED <<payload, pos, pc, previous, ribbon>>

\* checkForChanges of the polling interval
PollForChanges ==
    /\ Settings.polling
    /\ state.hashChanged
    /\ state' = [onRecipientsChanged(state) EXCEPT
                    !.lastRecipientHash = state.readable,
                    !.hashChanged = FALSE]
    /\ outcome' = Displayed("polled")
    /\ UNCHANGED <<payload, pos, pc, previous, ribbon>>

\* the debounce timer fires
TimerFires ==
    /\ state.recipientChangeTimeout = "armed"
    /\ state' = [(IF state.isUpdatingDisplay
                  THEN state
                  ELSE updateRecipientDisplay(state))
                     EXCEPT !.recipientChangeTimeout = "fired"]
    /\ outcome' = Displayed(IF state.isUpdatingDisplay
                            THEN "dropped" ELSE "started")
    /\ UNCHANGED <<payload, pos, pc, previous, ribbon>>

\* a handler of the pane (clean, sort, undo, restore defaults, ...) calls
\* updateRecipientDisplay
HandlerRefresh ==
    /\ state.calls < MaxRefreshCalls
    /\ state' = [updateRecipientDisplay(state) EXCEPT !.calls = @ + 1]
    /\ outcome' = Displayed(IF state.isUpdatingDisplay
                            THEN "skipped" ELSE "started")
    /\ UNCHANGED <<payload, pos, pc, previous, ribbon>>

\* the run after the last of its three readings: everything is rendered and
\* the lock is released
runRendered(host, k, read) ==
    [host EXCEPT !.displayed = read,
                 !.runs = WithoutAt(@, k),
                 !.isUpdatingDisplay = FALSE]

\* the run after a reading that failed: the toast of the catch, and the lock
\* is released; the answers still owed resolve promises nobody awaits
runFailed(host, k) ==
    [host EXCEPT !.failed = TRUE,
                 !.runs = WithoutAt(@, k),
                 !.isUpdatingDisplay = FALSE]

\* the host answers a getAsync of a run of updateRecipientDisplay
GetAnswered ==
    /\ \E k \in 1..Len(state.runs) : \E f \in state.runs[k].pending :
       \E succeeded \in BOOLEAN :
          IF ~succeeded
          THEN /\ state' = runFailed(state, k)
               /\ outcome' = Displayed("failed")
          ELSE IF state.runs[k].pending = {f}
          THEN /\ state' = runRendered(
                               state, k,
                               [state.runs[k].read EXCEPT
                                   ![f] = state.readable[f]])
               /\ outcome' = Displayed("rendered")
          ELSE /\ state' = [state EXCEPT
                               !.runs[k].pending = @ \ {f},
                               !.runs[k].read[f] =
                                   state.readable[f]]
               /\ outcome' = Displayed("read")
    /\ UNCHANGED <<payload, pos, pc, previous, ribbon>>

NextDisplay ==
    \/ RecipientsChange
    \/ EventDelivered
    \/ PollForChanges
    \/ TimerFires
    \/ HandlerRefresh
    \/ GetAnswered

SpecDisplay == InitDisplay /\ [][NextDisplay]_vars

\* the host delivers the events and answers it owes, and timers fire
SpecDisplayFair ==
    /\ SpecDisplay
    /\ WF_vars(EventDelivered)
    /\ WF_vars(PollForChanges)
    /\ WF_vars(TimerFires)
    /\ WF_vars(GetAnswered)

\* the step is a call of updateRecipientDisplay made while the lock is set
CalledWhileLocked ==
    /\ state.isUpdatingDisplay
    /\ \/ state'.calls = state.calls + 1
       \/ /\ state.recipientChangeTimeout = "armed"
          /\ state'.recipientChangeTimeout = "fired"

\* at most one run is in progress, and the lock is set exactly while one is
OneRunAtATime ==
    /\ Len(state.runs) <= 1
    /\ state.isUpdatingDisplay <=> (state.runs # <<>>)

\* C36: at most one run of updateRecipientDisplay is in progress at any time;
\* a call made while isUpdatingDisplay is set returns without reading or
\* rendering anything; the flag is cleared when a run ends, whether it
\* succeeded or failed, so that the display does not stay locked.
C36_OneDisplayRunAtATime ==
    /\ []OneRunAtATime
    /\ [][CalledWhileLocked
             => /\ state'.runs = state.runs
                /\ state'.displayed = state.displayed
                /\ state'.isUpdatingDisplay]_vars
    /\ state.isUpdatingDisplay ~> ~state.isUpdatingDisplay

C36_Witness ==
    /\ outcome = Displayed("skipped")
    /\ state.isUpdatingDisplay
    /\ Len(state.runs) = 1
    /\ state.runs[1].pending # Fields

\* C37: no recipient change is lost by the display: once the recipients have
\* stopped changing, a refresh that reads the final recipients eventually
\* runs (no reading failing), and from then on the lists displayed are the
\* message's to, cc and bcc.
C37_DisplayCatchesUp ==
    ([]~state.failed)
        => <>[](state.displayed = state.readable)

-----------------------------------------------------------------------------
\* The settings of the task pane (SpecSettings): loading them, the checkboxes
\* and the order of the feature items, the internal domains list and Restore
\* defaults.

MaxSettingsOps == 3

\* CONFIG.MAX_INTERNAL_DOMAINS
MaxInternalDomains == 3

\* "mydomain.com", the placeholder of the domains list
PlaceholderDomain == <<"m","y","d","o","m","a","i","n",".","c","o","m">>

\* "newdomain.com", what the add button appends
NewDomain == <<"n","e","w","d","o","m","a","i","n",".","c","o","m">>

\* a value of the saved settings that is a number, not a string
NumberValue == <<"number">>

\* the checkboxes that need a domain
DomainDependent == {"prioritizeInternal", "removeExternal"}

\* ClearSend.settings as the script defines it, and as the catch of
\* loadUserSettings and handleRestoreDefaults set it
DefaultSettings ==
    [enabledSteps    |-> <<"sort", "dedupe", "validate", "prioritizeInternal">>,
     stepOrder       |-> DefaultOrder,
     orgDomain       |-> <<>>,
     internalDomains |-> <<PlaceholderDomain>>,
     keepInvalid     |-> FALSE]

\* a label of domainRegex: [a-zA-Z0-9][a-zA-Z0-9-]*
DomainLabel(label) ==
    /\ label # <<>>
    /\ label[1] \in AlphaNum
    /\ \A i \in 2..Len(label) : label[i] \in AlphaNum \cup {"-"}

\* domainRegex.test(value):
\* /^[a-zA-Z0-9][a-zA-Z0-9-]*(\.[a-zA-Z0-9][a-zA-Z0-9-]*)*\.[a-zA-Z]{2,}$/
domainRegexTest(value) ==
    /\ Len(split(value, ".")) >= 2
    /\ \A i \in 1..(Len(split(value, ".")) - 1) :
          DomainLabel(split(value, ".")[i])
    /\ Len(split(value, ".")[Len(split(value, "."))]) >= 2
    /\ \A i \in 1..Len(split(value, ".")[Len(split(value, "."))]) :
          split(value, ".")[Len(split(value, "."))][i] \in Letters

\* domain && domain !== "mydomain.com" && domain.trim() !== "" throws on a
\* value that is truthy and has no trim
DomainTestThrows(domains) ==
    \E i \in 1..Len(domains) :
        /\ domains[i] = NumberValue
        /\ \A j \in 1..(i - 1) :
              \/ domains[j] \in {<<>>, NullValue, PlaceholderDomain}
              \/ trim(domains[j]) = <<>>

\* hasValidDomains
hasValidDomains(settings) ==
    \E i \in 1..Len(settings.internalDomains) :
        /\ settings.internalDomains[i] \notin {<<>>, NullValue}
        /\ settings.internalDomains[i] # PlaceholderDomain
        /\ trim(settings.internalDomains[i]) # <<>>

\* saveSettings: roamingSettings.set and saveAsync
saveSettings(host) ==
    [host EXCEPT !.roaming = [stored |-> TRUE, value |-> host.settings]]

\* updateDomainDependentFeatures without the removal from enabledSteps: the
\* two checkboxes only
updateDomainDependentFeaturesDomOnly(host) ==
    IF ~hasValidDomains(host.settings)
    THEN saveSettings([host EXCEPT !.checked = @ \ DomainDependent,
                                   !.disabled = DomainDependent])
    ELSE [host EXCEPT !.disabled = {}]

\* updateDomainDependentFeatures
updateDomainDependentFeatures(host) ==
    IF ~hasValidDomains(host.settings)
    THEN saveSettings(
             [host EXCEPT
                 !.checked = @ \ DomainDependent,
                 !.disabled = DomainDependent,
                 !.settings.enabledSteps =
                     SelectSeq(@, LAMBDA step : step \notin DomainDependent)])
    ELSE [host EXCEPT !.disabled = {}]

\* renderInternalDomains: the inputs are rebuilt from the settings, then
\* updateDomainDependentFeatures
renderInternalDomains(host) == updateDomainDependentFeatures(host)

\* updateSettings: the order and the enabled steps are read from the feature
\* items and their checkboxes
updateSettings(host) ==
    saveSettings(
        [host EXCEPT
            !.settings.enabledSteps =
                SelectSeq(host.order, LAMBDA step : step \in host.checked),
            !.settings.stepOrder = host.order,
            !.settings.keepInvalid = "keepInvalid" \in host.checked])

\* restoreFeatureOrder: the items named in stepOrder are appended to the
\* grid in that order, after the ones it does not name
restoreFeatureOrder(host) ==
    [host EXCEPT
        !.order =
            SelectSeq(@, LAMBDA step :
                             ~SeqIncludes(host.settings.stepOrder, step))
            \o SelectSeq(host.settings.stepOrder,
                         LAMBDA step : SeqIncludes(host.order, step))]

\* updateSettingsUI
updateSettingsUI(host) ==
    IF host.settings.stepOrder # <<>>
    THEN restoreFeatureOrder(
             [host EXCEPT
                 !.checked =
                     {step \in {"sort", "dedupe", "validate",
                                "prioritizeInternal", "removeExternal"} :
                          SeqIncludes(host.settings.enabledSteps, step)}
                     \cup (IF host.settings.keepInvalid
                           THEN {"keepInvalid"} ELSE {})])
    ELSE [host EXCEPT
             !.checked =
                 {step \in {"sort", "dedupe", "validate",
                            "prioritizeInternal", "removeExternal"} :
                      SeqIncludes(host.settings.enabledSteps, step)}
                 \cup (IF host.settings.keepInvalid
                       THEN {"keepInvalid"} ELSE {})]

\* {...ClearSend.settings, ...savedSettings}
MergedSettings(settings, saved) ==
    [key \in DOMAIN settings |->
        IF key \in DOMAIN saved THEN saved[key] ELSE settings[key]]

\* loadUserSettings, followed by the updateDomainDependentFeatures of the
\* initialisation; page is the pane as the markup and the script define it
loadUserSettings(page, roaming) ==
    IF ~roaming.stored
    THEN updateDomainDependentFeatures(
             renderInternalDomains(saveSettings(page)))
    ELSE IF DomainTestThrows(
                MergedSettings(page.settings, roaming.value).internalDomains)
    THEN updateDomainDependentFeatures(
             saveSettings(renderInternalDomains(
                 [updateSettingsUI(
                      [page EXCEPT
                          !.roaming = roaming,
                          !.settings = MergedSettings(page.settings,
                                                      roaming.value)])
                     EXCEPT !.settings = DefaultSettings])))
    ELSE updateDomainDependentFeatures(
             renderInternalDomains(
                 updateSettingsUI(
                     [page EXCEPT
                         !.roaming = roaming,
                         !.settings = MergedSettings(page.settings,
                                                     roaming.value)])))

\* the checkboxes the markup checks
MarkupChecked == {{}, {"sort", "dedupe", "validate", "prioritizeInternal"}}

\* the pane before loadUserSettings
FreshPage(checked, roaming) ==
    [settings |-> DefaultSettings,
     checked  |-> checked,
     disabled |-> {},
     order    |-> DefaultOrder,
     roaming  |-> roaming]

\* what roaming storage holds when the pane opens
SavedSettings ==
    {[stored |-> FALSE, value |-> [none |-> TRUE]],
     [stored |-> TRUE,
      value  |-> [enabledSteps |-> <<"removeExternal", "sort">>]],
     [stored |-> TRUE,
      value  |-> [enabledSteps    |-> <<"prioritizeInternal", "removeExternal">>,
                  internalDomains |-> <<CorpCom>>]],
     [stored |-> TRUE,
      value  |-> [enabledSteps    |-> <<"removeExternal">>,
                  stepOrder       |-> Reverse(DefaultOrder),
                  internalDomains |-> <<<<" ">>, <<>>>>]],
     [stored |-> TRUE,
      value  |-> [enabledSteps    |-> <<"sort", "removeExternal">>,
                  internalDomains |-> <<PlaceholderDomain, NumberValue>>]]}

\* what the sender types into a domain input
TypedDomains ==
    {<<>>, <<" ">>, PlaceholderDomain, CorpCom, <<" ">> \o CorpCom,
     <<"c","o","r","p">>}

\* what a handler of the settings did, and the steps enabled before it
Configured(handler, host) ==
    [kind |-> "settings", handler |-> handler,
     before |-> host.settings.enabledSteps]

InitSettings ==
    /\ previous = <<>>
    /\ outcome = NoOutcome
    /\ ribbon = NoRibbon
    /\ pos = 0
    /\ pc = "idle"
    /\ \E checked \in MarkupChecked, roaming \in SavedSettings :
          /\ payload = [to |-> <<>>, cc |-> <<>>, bcc |-> <<>>,
                        userSettings |-> roaming]
          /\ state = loadUserSettings(FreshPage(checked, roaming), roaming)

\* a handler of the settings has run
ConfiguredBy(handler, host) ==
    /\ pos < MaxSettingsOps
    /\ state' = host
    /\ outcome' = Configured(handler, state)
    /\ pos' = pos + 1
    /\ UNCHANGED <<payload, pc, previous, ribbon>>

\* the pane is closed and opened again: loadUserSettings on what is stored
PaneReopened ==
    \E checked \in MarkupChecked :
        ConfiguredBy("loadUserSettings",
                     loadUserSettings(FreshPage(checked, state.roaming),
                                      state.roaming))

\* a click on a checkbox that is not disabled: its change event
CheckboxChanged ==
    \E step \in {DefaultOrder[i] : i \in 1..Len(DefaultOrder)} \ state.disabled :
        ConfiguredBy("updateSettings",
                     updateSettings(
                         [state EXCEPT
                             !.checked = IF step \in @ THEN @ \ {step}
                                         ELSE @ \cup {step}]))

\* a feature item is dragged to the end of the grid: dragend
ItemDragged ==
    \E k \in 1..Len(state.order) :
        ConfiguredBy("dragend",
                     updateSettings(
                         [state EXCEPT
                             !.order = Append(WithoutAt(@, k), @[k])]))

\* handleDomainChange on the input of index, holding value
handleDomainChange(host, index, value) ==
    IF trim(value) = <<>> \/ ~domainRegexTest(trim(value))
    THEN host
    ELSE updateDomainDependentFeatures(
             saveSettings([host EXCEPT
                              !.settings.internalDomains[index] = trim(value)]))

\* handleDomainBlur on the input of index, holding value
handleDomainBlur(host, index, value) ==
    IF trim(value) = <<>>
    THEN updateDomainDependentFeatures(
             saveSettings([host EXCEPT
                              !.settings.internalDomains[index] =
                                  PlaceholderDomain]))
    ELSE host

HandleDomainChange ==
    \E index \in 1..Len(state.settings.internalDomains),
       value \in TypedDomains :
        ConfiguredBy("handleDomainChange",
                     handleDomainChange(state, index, value))

HandleDomainBlur ==
    \E index \in 1..Len(state.settings.internalDomains),
       value \in TypedDomains :
        ConfiguredBy("handleDomainBlur",
                     handleDomainBlur(state, index, value))

\* handleRemoveDomain
HandleRemoveDomain ==
    \E index \in 1..Len(state.settings.internalDomains) :
        ConfiguredBy("handleRemoveDomain",
                     IF Len(state.settings.internalDomains) > 1
                     THEN renderInternalDomains(
                              saveSettings(
                                  [state EXCEPT
                                      !.settings.internalDomains =
                                          WithoutAt(@, index)]))
                     ELSE state)

\* handleAddDomain
HandleAddDomain ==
    ConfiguredBy("handleAddDomain",
                 IF Len(state.settings.internalDomains) >= MaxInternalDomains
                 THEN state
                 ELSE renderInternalDomains(
                          saveSettings(
                              [state EXCEPT
                                  !.settings.internalDomains =
                                      Append(@, NewDomain)])))

\* handleRestoreDefaults; saveAsync succeeds or fails
HandleRestoreDefaults ==
    \E succeeded \in BOOLEAN :
        ConfiguredBy(
            "handleRestoreDefaults",
            IF ~succeeded
            THEN state
            ELSE updateDomainDependentFeatures(
                     restoreFeatureOrder(
                         renderInternalDomains(
                             [state EXCEPT
                                 !.roaming = [stored |-> FALSE,
                                              value  |-> [none |-> TRUE]],
                                 !.settings = DefaultSettings,
                                 !.checked = {"sort", "dedupe", "validate",
                                              "prioritizeInternal"}]))))

NextSettings ==
    \/ PaneReopened
    \/ CheckboxChanged
    \/ ItemDragged
    \/ HandleDomainChange
    \/ HandleDomainBlur
    \/ HandleRemoveDomain
    \/ HandleAddDomain
    \/ HandleRestoreDefaults

SpecSettings == InitSettings /\ [][NextSettings]_vars

\* C39: whenever no valid (non-blank, non-placeholder) internal domain is
\* configured, the enabled steps contain neither prioritizeInternal nor
\* removeExternal, after every settings load, restore-defaults, checkbox
\* change and domain add, remove, change or blur; the two checkboxes are then
\* unchecked and disabled as well.
C39_DomainStepsNeedDomain ==
    ~hasValidDomains(state.settings)
        => /\ \A step \in DomainDependent :
                 ~SeqIncludes(state.settings.enabledSteps, step)
           /\ state.checked \cap DomainDependent = {}
           /\ state.disabled = DomainDependent

C39_Witness ==
    /\ outcome.kind = "settings"
    /\ outcome.handler = "handleDomainBlur"
    /\ SeqIncludes(outcome.before, "removeExternal")
    /\ ~hasValidDomains(state.settings)
    /\ state.settings.enabledSteps # <<>>

=============================================================================
